---- MODULE Spec2Model ----
(***************************************************************************)
(* Model of conway-sat: the backward (ancestor) search for Conway's Game   *)
(* of Life.  src/src/game_of_life.py is the forward simulator,             *)
(* src/src/sat_solver.py the SAT encoding and the backward solver, and     *)
(* src/src/tree_vis.py the ancestor tree with its multi-worker scheduler.  *)
(***************************************************************************)
EXTENDS Integers, Sequences, FiniteSets, TLC

(* ------------------------------ bounds --------------------------------- *)
\* grid height and width (TreeVisualizer(w, h) takes them as parameters)
GridH == 1
GridW == 2
\* size of the node arena: once it is full a solve is taken to time out, and
\* the commands that create a node are not issued
MaxNodes == 3
\* the worker counts offered by the dropdown (the program offers 1..10)
MaxWorkers == 2
\* thread objects that can exist at a time
MaxThreads == 2
\* size of the arena when a saved tree is loaded
CapNodes == 11
RaceNodes == 12
\* shape of the targets of the direct solver calls, and their largest small
\* population bound
SolverH == 2
SolverW == 3
SolverMaxOnes == 2
\* the strip of the calls that test the window of restrict
WideH == 1
WideW == 6
\* shape of the layers given to the encoder alone
EncH == 3
EncW == 3
\* shape of the targets of the region decomposition, and the largest buffer
RegH == 2
RegW == 6
MaxBuffer == 2
\* the lists of boxes given to the merge: coordinates and length
BoxYMax == 1
BoxXMax == 3
MaxBoxes == 3
\* shape of the targets of solve_backward_components, and the largest buffer
CompH == 2
CompW == 4
CompBuffer == 1
\* shape and largest population of the targets of the calls with two regions
JoinH == 3
JoinW == 6
JoinPop == 2
\* the largest initial bound of the bisection
BisectMaxOnes == 6
\* shape of the grid of the selection backsolve
SelH == 3
SelW == 3
SelLive == 2
\* the largest number of array objects
MaxArrays == 7

(* ------------------------- program constants --------------------------- *)
\* a cap that lets a node with five children be solved once more
BranchCapOff == 4 + 1
\* tree_vis.py:333   if len(node.children) > 4
BranchCap == 4

(* ------------------------------- grids --------------------------------- *)
\* A grid of shape h x w is the set of its live cells <<y, x>>.
CellsOf(h, w) == (0 .. h - 1) \X (0 .. w - 1)
GridsOf(h, w) == SUBSET CellsOf(h, w)
DeadGrid == {}
Offsets == {o \in (-1 .. 1) \X (-1 .. 1) : o # <<0, 0>>}
\* the number of live cells, grid.sum()
Population(g) == Cardinality(g)

\* game_of_life.py lines 14-19: the sum of the eight rolled copies of the
\* grid.  np.roll wraps around, and on a grid narrower than 3 two rolls can
\* bring the same cell, which is then counted twice.
RollNeighbors(g, c, h, w) ==
    Cardinality({o \in Offsets :
        <<(c[1] - o[1] + h) % h, (c[2] - o[2] + w) % w>> \in g})

\* GameOfLife.step: birth on 3, survival on 2 or 3
step(g, h, w) ==
    {c \in CellsOf(h, w) :
        \/ RollNeighbors(g, c, h, w) = 3 /\ c \notin g
        \/ RollNeighbors(g, c, h, w) \in {2, 3} /\ c \in g}

\* neighbours taken modulo the shape whatever wrap says
neighbor_bools_wrapped(g, c, h, w, wrap) ==
    {o \in Offsets : <<(c[1] + o[1]) % h, (c[2] + o[2]) % w>> \in g}

\* sat_solver.py neighbor_bools: the list has one entry per offset, the cell
\* at that offset taken modulo the shape when wrap, and only the in-bounds
\* ones otherwise.  Here: the offsets whose entry is a live cell of g, so that
\* the cardinality is Sum([If(n,1,0) for n in neighbors]).
neighbor_bools(g, c, h, w, wrap) ==
    {o \in Offsets :
        LET ny == c[1] + o[1]
            nx == c[2] + o[2]
        IN  IF wrap
            THEN <<ny % h, nx % w>> \in g
            ELSE 0 <= nx /\ nx < w /\ 0 <= ny /\ ny < h /\ <<ny, nx>> \in g}

\* sat_solver.py life_transition: the constraints between two layers hold of
\* (curr, nxt) iff every cell of nxt equals Or(survive, born)
life_transition(curr, nxt, h, w, wrap) ==
    \A c \in CellsOf(h, w) :
        LET live_count == Cardinality(neighbor_bools(curr, c, h, w, wrap))
            survive == c \in curr /\ live_count \in {2, 3}
            born == c \notin curr /\ live_count = 3
        IN  (c \in nxt) <=> (survive \/ born)

\* ---- the backward solver, sat_solver.py solve_initial_for_target ----
None == <<>>
Some(g) == <<g>>

MinOf(S) == CHOOSE m \in S : \A k \in S : m <= k
MaxOf(S) == CHOOSE m \in S : \A k \in S : m >= k
\* lines 138-141: the window around the live target cells, clamped to the grid
Window(target, margin, h, w) ==
    LET ys == {c[1] : c \in target}
        xs == {c[2] : c \in target}
        y_min == MaxOf({0, MinOf(ys) - margin})
        y_max == MinOf({h - 1, MaxOf(ys) + margin})
        x_min == MaxOf({0, MinOf(xs) - margin})
        x_max == MinOf({w - 1, MaxOf(xs) + margin})
    IN  {c \in CellsOf(h, w) :
            x_min <= c[2] /\ c[2] <= x_max /\ y_min <= c[1] /\ c[1] <= y_max}

\* lines 153-157: one clause per excluded model (a collection of cells): some
\* in-bounds cell of it is dead in layer 0; an empty clause is not added
ExcludeClause(init, prev_model, h, w) ==
    LET diff_clause == prev_model \cap CellsOf(h, w)
    IN  diff_clause # {} => \E c \in diff_clause : c \notin init

\* the models when the clause of line 149 (some cell alive) is added whatever
\* restrict and the target are
ModelsAlive(target, h, w, wrap, margin, restrict, exclude_models, max_ones) ==
    {init \in GridsOf(h, w) :
        /\ life_transition(init, target, h, w, wrap)
        /\ Population(init) <= max_ones
        /\ init # {}
        /\ (restrict /\ target # {}) => init \subseteq Window(target, margin, h, w)
        /\ \A i \in 1 .. Len(exclude_models) :
              ExcludeClause(init, exclude_models[i], h, w)}

\* the models of the constraints without the cardinality constraint of line 136
ModelsUnbounded(target, h, w, wrap, margin, restrict, exclude_models, max_ones) ==
    {init \in GridsOf(h, w) :
        /\ life_transition(init, target, h, w, wrap)
        /\ (restrict /\ target # {}) =>
              /\ init \subseteq Window(target, margin, h, w)
              /\ init \cap Window(target, margin, h, w) # {}
        /\ \A i \in 1 .. Len(exclude_models) :
              ExcludeClause(init, exclude_models[i], h, w)}

\* lines 130-157: the values of layer 0 in the models of the constraints, for
\* steps=1
Models(target, h, w, wrap, margin, restrict, exclude_models, max_ones) ==
    {init \in GridsOf(h, w) :
        /\ life_transition(init, target, h, w, wrap)
        /\ Population(init) <= max_ones
        /\ (restrict /\ target # {}) =>
              /\ init \subseteq Window(target, margin, h, w)
              /\ init \cap Window(target, margin, h, w) # {}
        /\ \A i \in 1 .. Len(exclude_models) :
              ExcludeClause(init, exclude_models[i], h, w)}

\* lines 159-168: None when s.check() is not sat (unsat, or the timeout hit),
\* otherwise layer 0 of the model the oracle picked
solve_initial_for_target(target, h, w, wrap, margin, restrict, exclude_models, max_ones) ==
    {None} \cup
    {Some(init) : init \in
        Models(target, h, w, wrap, margin, restrict, exclude_models, max_ones)}

\* ---- region decomposition, sat_solver.py lines 11-83 and 171-183 ----
\* the position of a cell in the scan for y in range(h): for x in range(w)
Raster(c, w) == c[1] * w + c[2]

\* lines 27-36: the live cells reached from the cells of seen through the
\* eight offsets
RECURSIVE Flood(_, _)
Flood(target, seen) ==
    LET more == {c \in target \ seen :
                    \E d \in seen : \E o \in Offsets :
                        c = <<d[1] + o[1], d[2] + o[2]>>}
    IN  IF more = {} THEN seen ELSE Flood(target, seen \cup more)

\* _find_components: labels 1..n in the order in which the scan meets the
\* components (scipy's label numbers them in the same order), 0 on dead cells
_find_components(target, h, w) ==
    LET first(c) == \A d \in Flood(target, {c}) : Raster(c, w) <= Raster(d, w)
        seeds == {c \in target : first(c)}
        number(c) ==
            Cardinality({s \in seeds :
                \E d \in Flood(target, {c}) : first(d) /\ Raster(s, w) <= Raster(d, w)})
    IN  [labeled |-> [c \in CellsOf(h, w) |-> IF c \in target THEN number(c) ELSE 0],
         n |-> Cardinality(seeds)]

\* the boxes without the clamp of lines 48-49
_boxes_unclamped(labeled, n_components, buffer, h, w) ==
    LET cells(i) == {c \in CellsOf(h, w) : labeled[c] = i}
        box(i) ==
            LET ys == {c[1] : c \in cells(i)}
                xs == {c[2] : c \in cells(i)}
            IN  <<MinOf(ys) - buffer, MaxOf(ys) + buffer,
                  MinOf(xs) - buffer, MaxOf(xs) + buffer>>
    IN  [k \in 1 .. n_components |-> box(k)]

\* _boxes_from_labels: one box [y0, y1, x0, x1] per label, the bounding box of
\* its cells widened by buffer and clamped to the grid
_boxes_from_labels(labeled, n_components, buffer, h, w) ==
    LET cells(i) == {c \in CellsOf(h, w) : labeled[c] = i}
        box(i) ==
            LET ys == {c[1] : c \in cells(i)}
                xs == {c[2] : c \in cells(i)}
            IN  <<MaxOf({0, MinOf(ys) - buffer}), MinOf({h - 1, MaxOf(ys) + buffer}),
                  MaxOf({0, MinOf(xs) - buffer}), MinOf({w - 1, MaxOf(xs) + buffer})>>
        kept == SelectSeq([i \in 1 .. n_components |-> i], LAMBDA i : cells(i) # {})
    IN  [k \in 1 .. Len(kept) |-> box(kept[k])]

\* inclusive on both axes
_overlap(a, b) == a[4] >= b[3] /\ b[4] >= a[3] /\ a[2] >= b[1] /\ b[2] >= a[1]

\* a merge that keeps the first box only
_keep_first(a, b) == a

_merge_two(a, b) ==
    <<MinOf({a[1], b[1]}), MaxOf({a[2], b[2]}), MinOf({a[3], b[3]}), MaxOf({a[4], b[4]})>>

\* lines 74-78: the loop over j, from index j on
RECURSIVE ForJ(_, _, _, _, _)
ForJ(boxes, cur, j, used, changed) ==
    IF j > Len(boxes) THEN [cur |-> cur, used |-> used, changed |-> changed]
    ELSE IF used[j] THEN ForJ(boxes, cur, j + 1, used, changed)
    ELSE IF _overlap(cur, boxes[j])
         THEN ForJ(boxes, _merge_two(cur, boxes[j]), j + 1, [used EXCEPT ![j] = TRUE], TRUE)
         ELSE ForJ(boxes, cur, j + 1, used, changed)

\* lines 71-81: the loop over i, from index i on
RECURSIVE ForI(_, _, _, _, _)
ForI(boxes, i, used, out, changed) ==
    IF i > Len(boxes) THEN [boxes |-> out, changed |-> changed]
    ELSE IF used[i] THEN ForI(boxes, i + 1, used, out, changed)
    ELSE LET r == ForJ(boxes, boxes[i], i + 1, used, changed)
         IN  ForI(boxes, i + 1, [r.used EXCEPT ![i] = TRUE], Append(out, r.cur), r.changed)

\* lines 68-82: one turn of the while loop
MergePass(boxes) == ForI(boxes, 1, [k \in 1 .. Len(boxes) |-> FALSE], <<>>, FALSE)

\* _merge_overlapping_boxes: turns of the loop until one changes nothing
RECURSIVE _merge_overlapping_boxes(_)
_merge_overlapping_boxes(boxes) ==
    LET r == MergePass(boxes)
    IN  IF r.changed THEN _merge_overlapping_boxes(r.boxes) ELSE r.boxes

bounding_boxes_from_components(target, buffer, h, w) ==
    LET found == _find_components(target, h, w)
    IN  IF found.n = 0 THEN <<>>
        ELSE _merge_overlapping_boxes(
                 _boxes_from_labels(found.labeled, found.n, buffer, h, w))

\* ---- Minimality Search (spec 4.3) over the Backward Solver (spec 4.2) ----
\* tree_vis.py line 349 calls solve_initial_minimal_iterative(grid, steps=1,
\* timeout_ms, exclude_grids), whose body is not among the sources.
\* sat_solver.py lines 116, 118 and 121: the defaults wrap=False, margin=3 and
\* max_ones=500
Margin == 3
StartBound == 500
CeilTenth(n) == (n + 9) \div 10
\* spec 4.2 step 5: at least ceil(0.1 * popcount(E)) + 1 cells differ from E
Diverse(init, excl) ==
    Cardinality((init \ excl) \cup (excl \ init)) >= CeilTenth(Population(excl)) + 1

\* The layer-0 solutions of the first call (the start bound, no exclude list
\* handed to the encoder), for every target of the tree's shape.
FirstSolutions ==
    [target \in GridsOf(GridH, GridW) |->
        Models(target, GridH, GridW, FALSE, Margin, TRUE, <<>>, StartBound)]

\* Every diverse solution of the first bound can be the final answer (the
\* next, tighter call may fail or time out, and the best-known one is
\* returned), and None is the answer when the first call fails.
solve_initial_minimal_iterative(target, exclude_grids) ==
    {None} \cup
    {Some(init) : init \in
        {m \in FirstSolutions[target] :
            \A i \in 1 .. Len(exclude_grids) : Diverse(m, exclude_grids[i])}}

(* ------------------------------- state --------------------------------- *)
VARIABLES
    nodes,        \* the arena of Node objects: node id -> [grid, parent, children, excluded_from_sat]
    roots,        \* self.roots: a list of node ids
    current_node, \* self.current_node
    game_grid,    \* self.game.grid
    searching,    \* self.searching, the cancellation flag
    lock,         \* the threads inside a `with self.lock:`
    num_workers,  \* self.num_workers
    worker_locations, \* self.worker_locations: a list of node ids
    threads,      \* the search_worker threads: position and locals
    ui,           \* the position of the UI thread in handle_events
    call,         \* the arguments of a direct call of the backward solver
    result        \* what that call returned

vars == <<nodes, roots, current_node, game_grid, searching, lock, num_workers,
          worker_locations, threads, ui, call, result>>

NoNode == 0
\* the main (UI) thread, numbered after the worker threads
UI == MaxThreads + 1
ThreadIds == 1 .. MaxThreads
NodeIds == 1 .. Len(nodes)

\* Node.__init__: a copy of the grid, no children, nothing excluded
Node(grid, parent) ==
    [grid |-> grid, parent |-> parent, children |-> <<>>, excluded_from_sat |-> <<>>]

\* Node.depth: the number of parent links above n
RECURSIVE depth(_, _)
depth(ns, n) == IF ns[n].parent = NoNode THEN 0 ELSE 1 + depth(ns, ns[n].parent)

\* the node reached from n by k parent links, stopping at a parentless node
\* (the loop of lines 376-380)
RECURSIVE Up(_, _, _)
Up(ns, n, k) ==
    IF k = 0 \/ ns[n].parent = NoNode THEN n ELSE Up(ns, ns[n].parent, k - 1)

\* the nodes collect(r) visits: r and everything below it
RECURSIVE Subtree(_, _)
Subtree(ns, n) ==
    {n} \cup UNION {Subtree(ns, ns[n].children[i]) : i \in 1 .. Len(ns[n].children)}
Forest == UNION {Subtree(nodes, roots[i]) : i \in 1 .. Len(roots)}

\* no direct call of the solver, or no result yet
NoCall == <<>>

\* a thread that was never started, or whose search_worker has returned
NoThread ==
    [pc |-> "none", worker_idx |-> 0, node |-> NoNode, grid_copy |-> DeadGrid,
     excluded_copy |-> <<>>, current_depth |-> 0]
\* a thread between two iterations of `while True` (line 325)
AtTop(i) == [NoThread EXCEPT !.pc = "top", !.worker_idx = i]
\* a thread killed by an exception that left search_worker
Dead == [NoThread EXCEPT !.pc = "crashed"]
\* the arena has room for one more node
Room(limit) == Len(nodes) < limit

(* TreeVisualizer.__init__: one random grid, one root, one worker slot *)
Init ==
    /\ \E g \in GridsOf(GridH, GridW) :
        /\ game_grid = g
        /\ nodes = <<Node(g, NoNode)>>
    /\ roots = <<1>>
    /\ current_node = 1
    /\ searching = FALSE
    /\ lock = {}
    /\ num_workers = 1
    /\ worker_locations = <<1>>
    /\ threads = [t \in ThreadIds |-> NoThread]
    /\ ui = "idle"
    /\ call = NoCall
    /\ result = NoCall

\* a block that is entered without waiting for the lock
EnterAnyway(who) == UNCHANGED lock

\* `with self.lock:` the thread waits until nobody holds the lock, runs the
\* block and releases the lock.  A block without a blocking call inside is one
\* step: no other thread can enter a block of its own in between.
WithLock(who) == lock = {} /\ lock' = {}

(* ---------------------------- search_worker ---------------------------- *)
\* a worker that never looks at the flag
NeverCancelled == FALSE
\* lines 327 and 357: `if not self.searching: break`
Cancelled == ~searching

\* the same budget at every depth
timeout_flat(current_depth) == 10000
\* line 352: timeout_ms=10000 * max(1, current_depth)
timeout_ms(current_depth) == 10000 * MaxOf({1, current_depth})

\* lines 326-347, the first `with self.lock`: poll the flag, check the slot,
\* apply the branching cap, copy the inputs out
WorkerCheckAndCopy(t) ==
    /\ threads[t].pc = "top"
    /\ WithLock(t)
    /\ LET i == threads[t].worker_idx IN
       IF Cancelled \/ i >= Len(worker_locations)
       THEN /\ threads' = [threads EXCEPT ![t] = NoThread]
            /\ UNCHANGED worker_locations
       ELSE LET node == worker_locations[i + 1] IN
            IF Len(nodes[node].children) > BranchCap
            THEN IF nodes[node].parent # NoNode
                 THEN /\ worker_locations' =
                            [worker_locations EXCEPT ![i + 1] = nodes[node].parent]
                      /\ threads' = [threads EXCEPT ![t] = AtTop(i)]
                 ELSE /\ threads' = [threads EXCEPT ![t] = NoThread]
                      /\ UNCHANGED worker_locations
            ELSE /\ threads' = [threads EXCEPT ![t] =
                        [pc |-> "solving", worker_idx |-> i, node |-> node,
                         grid_copy |-> nodes[node].grid,
                         excluded_copy |-> nodes[node].excluded_from_sat,
                         current_depth |-> depth(nodes, node)]]
                 /\ UNCHANGED worker_locations
    /\ UNCHANGED <<nodes, roots, current_node, game_grid, searching, num_workers, ui,
                   call, result>>

\* a child that is appended to p's children but not told its parent
add_child_unlinked(ns, p, grid) ==
    Append([ns EXCEPT ![p].children = Append(@, Len(ns) + 1)], Node(grid, NoNode))

\* Node.add_child on node p: a new node with a copy of the grid, appended to
\* p's children; returns the arena (the new node is its last one)
add_child(ns, p, grid) ==
    Append([ns EXCEPT ![p].children = Append(@, Len(ns) + 1)], Node(grid, p))

\* a write-back that shows the new node wherever the selection is
WriteBackFoundShown(t, a) ==
    LET i == threads[t].worker_idx
        p == worker_locations[i + 1]
        new_node == Len(nodes) + 1
    IN  /\ nodes' = [add_child(nodes, p, a) EXCEPT
                        ![p].excluded_from_sat = Append(@, a)]
        /\ worker_locations' = [worker_locations EXCEPT ![i + 1] = new_node]
        /\ game_grid' = a /\ current_node' = new_node
        /\ threads' = [threads EXCEPT ![t] = AtTop(i)]

\* lines 360-369: an ancestor a was found
WriteBackFound(t, a) ==
    LET i == threads[t].worker_idx
        p == worker_locations[i + 1]
        new_node == Len(nodes) + 1
    IN  /\ nodes' = [add_child(nodes, p, a) EXCEPT
                        ![p].excluded_from_sat = Append(@, a)]
        /\ worker_locations' = [worker_locations EXCEPT ![i + 1] = new_node]
        /\ IF threads[t].node = current_node
           THEN game_grid' = a /\ current_node' = new_node
           ELSE UNCHANGED <<game_grid, current_node>>
        /\ threads' = [threads EXCEPT ![t] = AtTop(i)]

\* lines 390-393: the worker goes to curr
WriteBackMove(t, curr) ==
    LET i == threads[t].worker_idx IN
        /\ worker_locations' = [worker_locations EXCEPT ![i + 1] = curr]
        /\ IF threads[t].node = current_node
           THEN game_grid' = nodes[curr].grid /\ current_node' = curr
           ELSE UNCHANGED <<game_grid, current_node>>
        /\ threads' = [threads EXCEPT ![t] = AtTop(i)]
        /\ UNCHANGED nodes

\* an exception leaves search_worker: the thread is dead, `with` has released
\* the lock, nothing else changed
WorkerRaise(t) ==
    /\ threads' = [threads EXCEPT ![t] = Dead]
    /\ UNCHANGED <<nodes, worker_locations, game_grid, current_node>>

\* line 373, random.random() < 0.15: random.randint(1, curr.depth) steps up,
\* and randint(1, 0) raises ValueError
BacktrackRandom(t) ==
    LET curr == worker_locations[threads[t].worker_idx + 1]
        d == depth(nodes, curr)
    IN  IF d = 0
        THEN WorkerRaise(t)
        ELSE \E steps \in 1 .. d : WriteBackMove(t, Up(nodes, curr, steps))

\* lines 381-388: one step up, or stay at a parentless node
BacktrackOne(t) ==
    LET curr == worker_locations[threads[t].worker_idx + 1] IN
        WriteBackMove(t, IF nodes[curr].parent # NoNode THEN nodes[curr].parent ELSE curr)

\* lines 349-393: the solve returns ancestor (computed from the private copies),
\* then the second `with self.lock`.  When the arena is full the oracle is
\* taken to time out.
WorkerWriteBack(t, limit) ==
    /\ threads[t].pc = "solving"
    /\ WithLock(t)
    /\ \E ancestor \in solve_initial_minimal_iterative(
                        threads[t].grid_copy, threads[t].excluded_copy) :
        /\ ancestor # None => Room(limit)
        /\ IF Cancelled
           THEN /\ threads' = [threads EXCEPT ![t] = NoThread]
                /\ UNCHANGED <<nodes, worker_locations, game_grid, current_node>>
           ELSE IF threads[t].worker_idx >= Len(worker_locations)
           THEN WorkerRaise(t)   \* IndexError at line 362 or 372
           ELSE IF ancestor # None
           THEN WriteBackFound(t, ancestor[1])
           ELSE BacktrackRandom(t) \/ BacktrackOne(t)
    /\ UNCHANGED <<roots, searching, num_workers, ui, call, result>>

(* ------------------------------ UI thread ------------------------------ *)
\* threading.Thread(target=self.search_worker, args=(i,)).start() for
\* i in range(num_workers): the new threads take the unused thread objects
FreeThreads == {t \in ThreadIds : threads[t].pc \in {"none", "crashed"}}
Rank(t) == Cardinality({u \in FreeThreads : u < t})
StartThreads ==
    [t \in ThreadIds |->
        IF t \in FreeThreads /\ Rank(t) < num_workers THEN AtTop(Rank(t)) ELSE threads[t]]

\* the list l cut or padded with x to length n
Resize(l, n, x) ==
    [k \in 1 .. n |-> IF k <= Len(l) THEN l[k] ELSE x]

\* toggle_search, lines 399-411
UiToggleSearch ==
    /\ ui = "idle"
    /\ WithLock(UI)
    /\ searching' = ~searching
    /\ IF ~searching
       THEN /\ Cardinality(FreeThreads) >= num_workers
            /\ worker_locations' =
                  IF Len(worker_locations) < num_workers
                  THEN Resize(worker_locations, num_workers, current_node)
                  ELSE worker_locations
            /\ threads' = StartThreads
       ELSE UNCHANGED <<worker_locations, threads>>
    /\ UNCHANGED <<nodes, roots, current_node, game_grid, num_workers, ui, call, result>>

\* the dropdown entry i, lines 501-509.  While searching, line 503 calls
\* toggle_search inside the `with self.lock`, and toggle_search's own
\* `with self.lock` (line 399) waits for the lock this thread holds:
\* threading.Lock is not reentrant.
UiSetWorkers(i) ==
    /\ ui = "idle"
    /\ lock = {}
    /\ IF searching
       THEN /\ lock' = {UI}
            /\ ui' = "set_workers_toggle_search"
            /\ UNCHANGED <<num_workers, worker_locations>>
       ELSE /\ lock' = {}
            /\ num_workers' = i
            /\ worker_locations' = Resize(worker_locations, i, current_node)
            /\ UNCHANGED ui
    /\ UNCHANGED <<nodes, roots, current_node, game_grid, searching, threads, call, result>>

\* check_nodes, lines 519-523: jump to node n, all workers flock there
UiFlock(n) ==
    /\ ui = "idle"
    /\ WithLock(UI)
    /\ n \in Forest
    /\ current_node' = n
    /\ game_grid' = nodes[n].grid
    /\ worker_locations' = [k \in 1 .. num_workers |-> n]
    /\ UNCHANGED <<nodes, roots, searching, num_workers, threads, ui, call, result>>

\* scatter_workers, lines 588-597
UiScatter ==
    /\ ui = "idle"
    /\ WithLock(UI)
    /\ Forest # {}
    /\ worker_locations' \in [1 .. num_workers -> Forest]
    /\ UNCHANGED <<nodes, roots, current_node, game_grid, searching, num_workers,
                   threads, ui, call, result>>

\* the head of the list, whatever n is
IndexOfHead(l, n) == 1
\* the index of the first occurrence of n in the list l
IndexOf(l, n) == CHOOSE k \in 1 .. Len(l) : l[k] = n /\ \A j \in 1 .. k - 1 : l[j] # n

\* step_forward, lines 414-431.  The Step button and the right-arrow key go
\* on to lower the flag (button); the run loop steps only when it has read
\* searching = False.
UiStepForward(button, limit) ==
    /\ ui = "idle"
    /\ WithLock(UI)
    /\ button \/ ~searching
    /\ IF nodes[current_node].parent # NoNode
       THEN /\ current_node' = nodes[current_node].parent
            /\ game_grid' = nodes[nodes[current_node].parent].grid
            /\ UNCHANGED <<nodes, roots>>
       ELSE LET new_node == Len(nodes) + 1 IN
            /\ Room(limit)
            /\ game_grid' = step(game_grid, GridH, GridW)
            /\ nodes' = Append([nodes EXCEPT ![current_node].parent = new_node],
                               [Node(step(game_grid, GridH, GridW), NoNode) EXCEPT
                                   !.children = <<current_node>>])
            /\ roots' = IF \E k \in 1 .. Len(roots) : roots[k] = current_node
                        THEN [roots EXCEPT ![IndexOf(roots, current_node)] = new_node]
                        ELSE roots
            /\ current_node' = new_node
    /\ ui' = IF button THEN "step_stop" ELSE "idle"
    /\ UNCHANGED <<searching, num_workers, worker_locations, threads, call, result>>

\* lines 490 and 579: `with self.lock: self.searching = False` after the step
UiStepStop ==
    /\ ui = "step_stop"
    /\ WithLock(UI)
    /\ searching' = FALSE
    /\ ui' = "idle"
    /\ UNCHANGED <<nodes, roots, current_node, game_grid, num_workers,
                   worker_locations, threads, call, result>>

\* the Clear button and the c key, lines 482-487 and 571-576
UiClear(limit) ==
    /\ ui = "idle"
    /\ WithLock(UI)
    /\ Room(limit)
    /\ game_grid' = DeadGrid
    /\ nodes' = Append(nodes, Node(DeadGrid, NoNode))
    /\ roots' = <<Len(nodes) + 1>>
    /\ current_node' = Len(nodes) + 1
    /\ searching' = FALSE
    /\ UNCHANGED <<num_workers, worker_locations, threads, ui, call, result>>

\* a click on cell c of the grid, lines 543-548
UiCellToggle(c, limit) ==
    /\ ui = "idle"
    /\ WithLock(UI)
    /\ Room(limit)
    /\ LET g == (game_grid \ {c}) \cup ({c} \ game_grid) IN
        /\ game_grid' = g
        /\ nodes' = Append(nodes, Node(g, NoNode))
    /\ roots' = Append(roots, Len(nodes) + 1)
    /\ current_node' = Len(nodes) + 1
    /\ searching' = FALSE
    /\ UNCHANGED <<num_workers, worker_locations, threads, ui, call, result>>

\* open_load_menu, lines 292-301: the load menu opens and the flag is lowered
UiOpenLoadMenu ==
    /\ ui = "idle"
    /\ WithLock(UI)
    /\ searching' = FALSE
    /\ ui' = "loading"
    /\ UNCHANGED <<nodes, roots, current_node, game_grid, num_workers,
                   worker_locations, threads, call, result>>

\* lines 441-442: Escape closes the load menu
UiCloseLoadMenu ==
    /\ ui = "loading"
    /\ ui' = "idle"
    /\ UNCHANGED <<nodes, roots, current_node, game_grid, searching, lock, num_workers,
                   worker_locations, threads, call, result>>

\* the nodes of a saved tree, renumbered to follow the off nodes of the arena
Unpickle(saved_nodes, off) ==
    [k \in 1 .. Len(saved_nodes) |->
        [grid |-> saved_nodes[k].grid,
         parent |-> IF saved_nodes[k].parent = NoNode THEN NoNode
                    ELSE saved_nodes[k].parent + off,
         children |-> [j \in 1 .. Len(saved_nodes[k].children) |->
                          saved_nodes[k].children[j] + off],
         excluded_from_sat |-> saved_nodes[k].excluded_from_sat]]

\* lines 457-466: a saved tree is chosen in the load menu; pickle.load makes
\* new Node objects, which replace the roots and the selection
UiLoadTree(data, limit) ==
    /\ ui = "loading"
    /\ WithLock(UI)
    /\ Len(nodes) + Len(data.nodes) < limit
    /\ nodes' = nodes \o Unpickle(data.nodes, Len(nodes))
    /\ roots' = [k \in 1 .. Len(data.roots) |-> data.roots[k] + Len(nodes)]
    /\ current_node' = data.current_node + Len(nodes)
    /\ game_grid' = data.nodes[data.current_node].grid
    /\ searching' = FALSE
    /\ ui' = "idle"
    /\ UNCHANGED <<num_workers, worker_locations, threads, call, result>>

\* A tree that save_tree has written in an earlier session with two workers
\* that solved the same node at the same time, twice: the root and its first
\* child have four children each, and the children's grids as their
\* exclusion history.
OneCell == {<<0, 0>>}
SavedFamily(parent, first) ==
    [Node(DeadGrid, parent) EXCEPT
        !.children = <<first, first + 1, first + 2, first + 3>>,
        !.excluded_from_sat = <<DeadGrid, DeadGrid, OneCell, OneCell>>]
SavedTrees ==
    { [nodes |-> <<SavedFamily(NoNode, 2),
                   SavedFamily(1, 6), Node(DeadGrid, 1), Node(OneCell, 1), Node(OneCell, 1),
                   Node(DeadGrid, 2), Node(DeadGrid, 2), Node(OneCell, 2), Node(OneCell, 2)>>,
       roots |-> <<1>>, current_node |-> 1] }

(* ------------------- direct calls of the backward solver ---------------- *)
\* the arguments of solve_initial_for_target(target, steps=1, wrap, margin=3,
\* restrict, exclude_models, max_ones) on a SolverH x SolverW target
SolverCalls ==
    [target : GridsOf(SolverH, SolverW),
     wrap : BOOLEAN,
     restrict : BOOLEAN,
     exclude_models : {<<>>} \cup
        {<<e>> : e \in {g \in GridsOf(SolverH, SolverW) : Population(g) <= 1}},
     max_ones : (0 .. SolverMaxOnes) \cup {StartBound}]

InitSolver ==
    /\ nodes = <<Node(DeadGrid, NoNode)>>
    /\ game_grid = DeadGrid
    /\ roots = <<1>>
    /\ current_node = 1
    /\ searching = FALSE
    /\ lock = {}
    /\ num_workers = 1
    /\ worker_locations = <<1>>
    /\ threads = [t \in ThreadIds |-> NoThread]
    /\ ui = "idle"
    /\ \E c \in SolverCalls : call = <<c>>
    /\ result = NoCall

\* the call returns
SolveCall ==
    /\ result = NoCall
    /\ call # NoCall
    /\ \E r \in solve_initial_for_target(call[1].target, SolverH, SolverW,
                call[1].wrap, Margin, call[1].restrict, call[1].exclude_models, call[1].max_ones) :
          result' = <<r>>
    /\ UNCHANGED <<nodes, roots, current_node, game_grid, searching, lock,
                   num_workers, worker_locations, threads, ui, call>>

(* --------------------------- specifications ---------------------------- *)
\* the tree visualizer: the workers and the commands of the UI thread
Next ==
    \/ \E t \in ThreadIds : WorkerCheckAndCopy(t)
    \/ \E t \in ThreadIds : WorkerWriteBack(t, MaxNodes)
    \/ UiToggleSearch
    \/ \E i \in 1 .. MaxWorkers : UiSetWorkers(i)
    \/ \E n \in NodeIds : UiFlock(n)
    \/ UiScatter
    \/ \E button \in BOOLEAN : UiStepForward(button, MaxNodes)
    \/ UiStepStop
    \/ UiClear(MaxNodes)
    \/ \E c \in CellsOf(GridH, GridW) : UiCellToggle(c, MaxNodes)

Spec == Init /\ [][Next]_vars

\* the workers on a loaded tree, in an arena large enough for a node to get
\* more children than the branching cap: the user loads a saved tree, picks
\* a node of it and starts the search, and starts it again only when the
\* workers of the last search have returned
Loaded == Len(nodes) > 1
NextCap ==
    \/ \E t \in ThreadIds : WorkerCheckAndCopy(t)
    \/ \E t \in ThreadIds : WorkerWriteBack(t, CapNodes)
    \/ Loaded /\ (searching \/ FreeThreads = ThreadIds) /\ UiToggleSearch
    \/ \E n \in NodeIds : UiFlock(n)
    \/ UiOpenLoadMenu
    \/ UiCloseLoadMenu
    \/ \E data \in SavedTrees : UiLoadTree(data, CapNodes)

SpecCap == Init /\ [][NextCap]_vars

\* the same with the worker count of the dropdown, room for two more nodes
\* than the loaded tree has, and a user who clicks root nodes only
NextRace ==
    \/ \E t \in ThreadIds : WorkerCheckAndCopy(t)
    \/ \E t \in ThreadIds : WorkerWriteBack(t, RaceNodes)
    \/ Loaded /\ (searching \/ FreeThreads = ThreadIds) /\ UiToggleSearch
    \/ \E i \in 1 .. MaxWorkers : UiSetWorkers(i)
    \/ \E k \in 1 .. Len(roots) : UiFlock(roots[k])
    \/ UiOpenLoadMenu
    \/ UiCloseLoadMenu
    \/ \E data \in SavedTrees : UiLoadTree(data, RaceNodes)

SpecRace == Init /\ [][NextRace]_vars

\* the workers and the commands that raise or lower the flag, with threads
\* that keep running: a worker that can take its next step takes it (the
\* solve returns, by its timeout at the latest, and threading.Lock is handed
\* to a waiting thread once it is free)
NextLive ==
    \/ \E t \in ThreadIds : WorkerCheckAndCopy(t)
    \/ \E t \in ThreadIds : WorkerWriteBack(t, MaxNodes)
    \/ UiToggleSearch
    \/ \E i \in 1 .. MaxWorkers : UiSetWorkers(i)
    \/ UiStepForward(TRUE, MaxNodes)
    \/ UiStepStop

SpecLive ==
    /\ Init
    /\ [][NextLive]_vars
    /\ \A t \in ThreadIds :
          WF_vars(WorkerCheckAndCopy(t)) /\ WF_vars(WorkerWriteBack(t, MaxNodes))

\* ---- the node hit test of a mouse click, handle_events lines 516-535 ----
\* check_nodes walks the roots and the child lists, one node per step; the
\* walk is the list of roots still to visit and the stack of the calls of
\* check_nodes, each at an index of its node's child list
Walk == call[1]
Frame(n) == [node |-> n, i |-> 1]

\* line 534: for root in self.roots
UiCheckNodesBegin ==
    /\ ui = "idle"
    /\ call = NoCall
    /\ ui' = "check_nodes"
    /\ call' = <<[roots_left |-> roots, stack |-> <<>>]>>
    /\ UNCHANGED <<nodes, roots, current_node, game_grid, searching, lock, num_workers,
                   worker_locations, threads, result>>

\* lines 519-523: the click is on node n; the only locked block of the walk
UiCheckNodesHit(n) ==
    /\ WithLock(UI)
    /\ current_node' = n
    /\ game_grid' = nodes[n].grid
    /\ worker_locations' = [k \in 1 .. num_workers |-> n]
    /\ ui' = "idle"
    /\ call' = NoCall
    /\ UNCHANGED <<nodes, roots, searching, num_workers, threads, result>>

\* the walk goes on below node n, which the click missed: check_nodes(n) is
\* entered and will read n.children
UiCheckNodesMiss(n, rest) ==
    /\ call' = <<[rest EXCEPT !.stack = <<Frame(n)>> \o @]>>
    /\ UNCHANGED <<nodes, roots, current_node, game_grid, searching, lock, num_workers,
                   worker_locations, threads, ui, result>>

\* one step of the walk: the next root, or the next child of the node on top
\* of the stack (`for child in node.children`, read as the list is now), or
\* the return of a finished call; hit says whether the click is on the node
UiCheckNodesStep(hit) ==
    /\ ui = "check_nodes"
    /\ IF Walk.stack # <<>>
       THEN LET top == Head(Walk.stack)
                below == Tail(Walk.stack)
            IN  IF top.i <= Len(nodes[top.node].children)
                THEN LET child == nodes[top.node].children[top.i]
                         rest == [Walk EXCEPT !.stack = <<[top EXCEPT !.i = @ + 1]>> \o below]
                     IN  IF hit THEN UiCheckNodesHit(child)
                         ELSE UiCheckNodesMiss(child, rest)
                ELSE /\ ~hit
                     /\ call' = <<[Walk EXCEPT !.stack = below]>>
                     /\ UNCHANGED <<nodes, roots, current_node, game_grid, searching,
                                    lock, num_workers, worker_locations, threads, ui,
                                    result>>
       ELSE IF Walk.roots_left # <<>>
       THEN LET root == Head(Walk.roots_left)
                rest == [Walk EXCEPT !.roots_left = Tail(@)]
            IN  IF hit THEN UiCheckNodesHit(root) ELSE UiCheckNodesMiss(root, rest)
       ELSE /\ ~hit
            /\ ui' = "idle"
            /\ call' = NoCall
            /\ UNCHANGED <<nodes, roots, current_node, game_grid, searching, lock,
                           num_workers, worker_locations, threads, result>>

\* the workers, and a user who starts and stops the search and clicks into
\* the tree
NextReads ==
    \/ \E t \in ThreadIds : WorkerCheckAndCopy(t)
    \/ \E t \in ThreadIds : WorkerWriteBack(t, MaxNodes)
    \/ UiToggleSearch
    \/ UiCheckNodesBegin
    \/ \E hit \in BOOLEAN : UiCheckNodesStep(hit)

SpecReads == Init /\ [][NextReads]_vars

\* one call of the backward solver
SpecSolver == InitSolver /\ [][SolveCall]_vars

\* one call of solve_initial_for_target on a strip wider than the window of
\* margin 3, so that the window of lines 140-141 leaves cells out
WideCalls ==
    [target : GridsOf(WideH, WideW),
     wrap : BOOLEAN,
     restrict : BOOLEAN,
     exclude_models : {<<>>},
     max_ones : {StartBound}]

InitWide ==
    /\ nodes = <<Node(DeadGrid, NoNode)>>
    /\ game_grid = DeadGrid
    /\ roots = <<1>>
    /\ current_node = 1
    /\ searching = FALSE
    /\ lock = {}
    /\ num_workers = 1
    /\ worker_locations = <<1>>
    /\ threads = [t \in ThreadIds |-> NoThread]
    /\ ui = "idle"
    /\ \E c \in WideCalls : call = <<c>>
    /\ result = NoCall

\* the call returns
SolveWide ==
    /\ result = NoCall
    /\ call # NoCall
    /\ \E r \in solve_initial_for_target(call[1].target, WideH, WideW,
                call[1].wrap, Margin, call[1].restrict, call[1].exclude_models, call[1].max_ones) :
          result' = <<r>>
    /\ UNCHANGED <<nodes, roots, current_node, game_grid, searching, lock,
                   num_workers, worker_locations, threads, ui, call>>

SpecWide == InitWide /\ [][SolveWide]_vars

\* the encoder alone: the constraints of life_transition between a fixed
\* layer curr and a free layer nxt are handed to the oracle
EncoderCalls == [curr : GridsOf(EncH, EncW), wrap : BOOLEAN]

InitEncoder ==
    /\ nodes = <<Node(DeadGrid, NoNode)>>
    /\ game_grid = DeadGrid
    /\ roots = <<1>>
    /\ current_node = 1
    /\ searching = FALSE
    /\ lock = {}
    /\ num_workers = 1
    /\ worker_locations = <<1>>
    /\ threads = [t \in ThreadIds |-> NoThread]
    /\ ui = "idle"
    /\ \E c \in EncoderCalls : call = <<c>>
    /\ result = NoCall

\* the values of layer nxt that satisfy the constraints life_transition added
Encode ==
    /\ result = NoCall
    /\ call # NoCall
    /\ result' = <<{nxt \in GridsOf(EncH, EncW) :
                      life_transition(call[1].curr, nxt, EncH, EncW, call[1].wrap)}>>
    /\ UNCHANGED <<nodes, roots, current_node, game_grid, searching, lock,
                   num_workers, worker_locations, threads, ui, call>>

SpecEncoder == InitEncoder /\ [][Encode]_vars

\* one call of bounding_boxes_from_components; the callers pass a positive
\* buffer (the default 3, and 10 in visualization.py)
RegionCalls == [target : GridsOf(RegH, RegW), buffer : 1 .. MaxBuffer]

InitRegions ==
    /\ nodes = <<Node(DeadGrid, NoNode)>>
    /\ game_grid = DeadGrid
    /\ roots = <<1>>
    /\ current_node = 1
    /\ searching = FALSE
    /\ lock = {}
    /\ num_workers = 1
    /\ worker_locations = <<1>>
    /\ threads = [t \in ThreadIds |-> NoThread]
    /\ ui = "idle"
    /\ \E c \in RegionCalls : call = <<c>>
    /\ result = NoCall

\* the call returns its list of boxes
BoxesCall ==
    /\ result = NoCall
    /\ call # NoCall
    /\ result' = <<bounding_boxes_from_components(call[1].target, call[1].buffer,
                                                  RegH, RegW)>>
    /\ UNCHANGED <<nodes, roots, current_node, game_grid, searching, lock,
                   num_workers, worker_locations, threads, ui, call>>

SpecRegions == InitRegions /\ [][BoxesCall]_vars

\* one call of _merge_overlapping_boxes, turn by turn of its while loop
Boxes ==
    {bx \in (0 .. BoxYMax) \X (0 .. BoxYMax) \X (0 .. BoxXMax) \X (0 .. BoxXMax) :
        bx[1] <= bx[2] /\ bx[3] <= bx[4]}
BoxLists == UNION {[1 .. n -> Boxes] : n \in 0 .. MaxBoxes}

InitMerge ==
    /\ nodes = <<Node(DeadGrid, NoNode)>>
    /\ game_grid = DeadGrid
    /\ roots = <<1>>
    /\ current_node = 1
    /\ searching = FALSE
    /\ lock = {}
    /\ num_workers = 1
    /\ worker_locations = <<1>>
    /\ threads = [t \in ThreadIds |-> NoThread]
    /\ ui = "idle"
    /\ \E l \in BoxLists : call = <<l>>
    /\ result = NoCall

\* lines 65-66: boxes = boxes[:]; changed = True
MergeEnter ==
    /\ result = NoCall
    /\ call # NoCall
    /\ result' = <<[boxes |-> call[1], changed |-> TRUE, turns |-> 0, returned |-> FALSE]>>
    /\ UNCHANGED <<nodes, roots, current_node, game_grid, searching, lock,
                   num_workers, worker_locations, threads, ui, call>>

\* lines 67-82: while changed: one turn
MergeTurn ==
    /\ result # NoCall
    /\ ~result[1].returned
    /\ result[1].changed
    /\ LET r == MergePass(result[1].boxes)
       IN  result' = <<[boxes |-> r.boxes, changed |-> r.changed,
                        turns |-> result[1].turns + 1, returned |-> FALSE]>>
    /\ UNCHANGED <<nodes, roots, current_node, game_grid, searching, lock,
                   num_workers, worker_locations, threads, ui, call>>

\* line 83: return boxes
MergeReturn ==
    /\ result # NoCall
    /\ ~result[1].returned
    /\ ~result[1].changed
    /\ result' = <<[result[1] EXCEPT !.returned = TRUE]>>
    /\ UNCHANGED <<nodes, roots, current_node, game_grid, searching, lock,
                   num_workers, worker_locations, threads, ui, call>>

NextMerge == MergeEnter \/ MergeTurn \/ MergeReturn

\* the call runs on its own thread of control: it keeps taking steps
SpecMerge == InitMerge /\ [][NextMerge]_vars /\ WF_vars(NextMerge)

\* ---- solve_backward_components, sat_solver.py lines 185-208 ----
\* line 196: target[y0:y1+1, x0:x1+1], with the coordinates of the slice
SubTarget(target, box) ==
    {<<c[1] - box[1], c[2] - box[3]>> :
        c \in {d \in target : box[1] <= d[1] /\ d[1] <= box[2] /\
                               box[3] <= d[2] /\ d[2] <= box[4]}}
\* lines 206-207: the cells that combined[y0:y1+1, x0:x1+1] |= sub_init turns on
Paste(sub_init, box) == {<<c[1] + box[1], c[2] + box[3]>> : c \in sub_init}

\* the outcomes of a call: what each region's solve returned (subs) and what
\* the function returns (ret)
solve_backward_components(target, h, w, buffer, wrap, exclude_models) ==
    LET boxes == bounding_boxes_from_components(target, buffer, h, w)
        sub(i) ==
            solve_initial_for_target(SubTarget(target, boxes[i]),
                boxes[i][2] - boxes[i][1] + 1, boxes[i][4] - boxes[i][3] + 1,
                wrap, 0, FALSE, exclude_models, StartBound)
        \* lines 194-205: one solve per box, in the order of the list
        RECURSIVE sub_inits(_)
        sub_inits(k) ==
            IF k = 0 THEN {<<>>}
            ELSE {Append(f, r) : f \in sub_inits(k - 1), r \in sub(k)}
        pasted(f, i) == IF f[i] = None THEN {} ELSE Paste(f[i][1], boxes[i])
    IN  IF boxes = <<>>
        THEN {[subs |-> <<>>, ret |-> Some(DeadGrid)]}
        ELSE {[subs |-> f, ret |-> Some(UNION {pasted(f, i) : i \in 1 .. Len(boxes)})] :
                f \in sub_inits(Len(boxes))}

ComponentCalls == [target : GridsOf(CompH, CompW), buffer : 1 .. CompBuffer, wrap : BOOLEAN]

InitComponents ==
    /\ nodes = <<Node(DeadGrid, NoNode)>>
    /\ game_grid = DeadGrid
    /\ roots = <<1>>
    /\ current_node = 1
    /\ searching = FALSE
    /\ lock = {}
    /\ num_workers = 1
    /\ worker_locations = <<1>>
    /\ threads = [t \in ThreadIds |-> NoThread]
    /\ ui = "idle"
    /\ \E c \in ComponentCalls : call = <<c>>
    /\ result = NoCall

\* the call returns
ComponentsCall ==
    /\ result = NoCall
    /\ call # NoCall
    /\ \E r \in solve_backward_components(call[1].target, CompH, CompW,
                                            call[1].buffer, call[1].wrap, <<>>) :
          result' = <<r>>
    /\ UNCHANGED <<nodes, roots, current_node, game_grid, searching, lock,
                   num_workers, worker_locations, threads, ui, call>>

SpecComponents == InitComponents /\ [][ComponentsCall]_vars

\* the same call on a wider strip, where two regions fit side by side:
\* targets with at most JoinPop live cells, the default wrap=False
JoinCalls ==
    [target : {t \in GridsOf(JoinH, JoinW) : Population(t) <= JoinPop},
     buffer : 1 .. CompBuffer, wrap : {FALSE}]

InitJoin ==
    /\ nodes = <<Node(DeadGrid, NoNode)>>
    /\ game_grid = DeadGrid
    /\ roots = <<1>>
    /\ current_node = 1
    /\ searching = FALSE
    /\ lock = {}
    /\ num_workers = 1
    /\ worker_locations = <<1>>
    /\ threads = [t \in ThreadIds |-> NoThread]
    /\ ui = "idle"
    /\ \E c \in JoinCalls : call = <<c>>
    /\ result = NoCall

\* the call returns
JoinCall ==
    /\ result = NoCall
    /\ call # NoCall
    /\ \E r \in solve_backward_components(call[1].target, JoinH, JoinW,
                                            call[1].buffer, call[1].wrap, <<>>) :
          result' = <<r>>
    /\ UNCHANGED <<nodes, roots, current_node, game_grid, searching, lock,
                   num_workers, worker_locations, threads, ui, call>>

SpecJoin == InitJoin /\ [][JoinCall]_vars

\* ---- the oracle and the decoding, sat_solver.py lines 159-168 ----
\* line 159, s.check(): sat with a model of the constraints, unsat when they
\* have none, unknown when the timeout of line 129 is hit.  A model gives
\* every cell of layer 0 (t0) and of layer steps (t1) a truth value.
Check(target, h, w, wrap, margin, restrict, exclude_models, max_ones) ==
    LET ms == Models(target, h, w, wrap, margin, restrict, exclude_models, max_ones)
    IN  {[answer |-> "unknown"]}
        \cup {[answer |-> "unsat"] : u \in IF ms = {} THEN {1} ELSE {}}
        \cup {[answer |-> "sat",
               t0 |-> [c \in CellsOf(h, w) |-> c \in init],
               t1 |-> [c \in CellsOf(h, w) |-> c \in target]] : init \in ms}

\* a decoding that gives an all-dead grid when the oracle did not answer sat
DecodeAlways(checked, h, w) ==
    IF checked.answer # "sat" THEN Some(DeadGrid)
    ELSE Some({c \in CellsOf(h, w) : checked.t0[c]})

\* lines 159-168: None unless sat; otherwise init[y,x] = 1 where the model's
\* value of layers[0][y][x] is true
Decode(checked, h, w) ==
    IF checked.answer # "sat" THEN None
    ELSE Some({c \in CellsOf(h, w) : checked.t0[c]})

\* lines 126-159: the constraints are built and the oracle answers
OracleCheck ==
    /\ result = NoCall
    /\ call # NoCall
    /\ \E a \in Check(call[1].target, SolverH, SolverW, call[1].wrap, Margin,
                        call[1].restrict, call[1].exclude_models, call[1].max_ones) :
          result' = <<[checked |-> a, returned |-> FALSE, ret |-> None]>>
    /\ UNCHANGED <<nodes, roots, current_node, game_grid, searching, lock,
                   num_workers, worker_locations, threads, ui, call>>

\* lines 159-168: the call returns
OracleReturn ==
    /\ result # NoCall
    /\ ~result[1].returned
    /\ result' = <<[result[1] EXCEPT !.returned = TRUE,
                                     !.ret = Decode(result[1].checked, SolverH, SolverW)]>>
    /\ UNCHANGED <<nodes, roots, current_node, game_grid, searching, lock,
                   num_workers, worker_locations, threads, ui, call>>

NextOracle == OracleCheck \/ OracleReturn

SpecOracle == InitSolver /\ [][NextOracle]_vars

\* calls of solve_initial_for_target and of solve_backward_components side by
\* side: a call record with a buffer is a call of the latter
IsComponents(c) == "buffer" \in DOMAIN c

InitEither ==
    /\ nodes = <<Node(DeadGrid, NoNode)>>
    /\ game_grid = DeadGrid
    /\ roots = <<1>>
    /\ current_node = 1
    /\ searching = FALSE
    /\ lock = {}
    /\ num_workers = 1
    /\ worker_locations = <<1>>
    /\ threads = [t \in ThreadIds |-> NoThread]
    /\ ui = "idle"
    /\ \E c \in SolverCalls \cup ComponentCalls : call = <<c>>
    /\ result = NoCall

NextEither ==
    \/ ~IsComponents(call[1]) /\ OracleCheck
    \/ ~IsComponents(call[1]) /\ OracleReturn
    \/ IsComponents(call[1]) /\ ComponentsCall

SpecEither == InitEither /\ [][NextEither]_vars

\* ---- Minimality Search, spec 4.3 (solve_initial_minimal_iterative, whose
\* body is not in the repository), one Backward Solver call per step ----
\* the largest randomized decrement of the bound
MaxDecrement == 3
\* a next bound that is not below the count just found
SameBound(population, d) == population
\* a next bound above the count just found
LooserBound(population, d) == population + d
\* the next bound after a success: strictly below the live-cell count found
NextBound(population, d) == population - d
\* more calls than any search on a SolverH x SolverW target can make
MaxCalls == SolverH * SolverW + 4

MinimalCalls ==
    [target : GridsOf(SolverH, SolverW),
     startBound : (0 .. SolverMaxOnes) \cup {StartBound}]

InitMinimal ==
    /\ nodes = <<Node(DeadGrid, NoNode)>>
    /\ game_grid = DeadGrid
    /\ roots = <<1>>
    /\ current_node = 1
    /\ searching = FALSE
    /\ lock = {}
    /\ num_workers = 1
    /\ worker_locations = <<1>>
    /\ threads = [t \in ThreadIds |-> NoThread]
    /\ ui = "idle"
    /\ \E c \in MinimalCalls : call = <<c>>
    /\ result = NoCall

\* the search starts at startBound with no solution recorded
MinEnter ==
    /\ result = NoCall
    /\ call # NoCall
    /\ result' = <<[bound |-> call[1].startBound, best |-> None, calls |-> 0,
                     returned |-> FALSE]>>
    /\ UNCHANGED <<nodes, roots, current_node, game_grid, searching, lock,
                   num_workers, worker_locations, threads, ui, call>>

\* one call of the Backward Solver with the current bound: on success record
\* the solution and lower the bound, on failure stop and return the best
MinSolve ==
    /\ result # NoCall
    /\ ~result[1].returned
    /\ result[1].calls < MaxCalls
    /\ \E r \in solve_initial_for_target(call[1].target, SolverH, SolverW, FALSE,
                     Margin, TRUE, <<>>, result[1].bound) :
          IF r = None
          THEN result' = <<[result[1] EXCEPT !.calls = @ + 1, !.returned = TRUE]>>
          ELSE \E d \in 1 .. MaxDecrement :
                  result' = <<[bound |-> NextBound(Population(r[1]), d), best |-> r,
                               calls |-> result[1].calls + 1, returned |-> FALSE]>>
    /\ UNCHANGED <<nodes, roots, current_node, game_grid, searching, lock,
                   num_workers, worker_locations, threads, ui, call>>

NextMinimal == MinEnter \/ MinSolve

\* the worker thread that runs the search keeps taking steps
SpecMinimal == InitMinimal /\ [][NextMinimal]_vars /\ WF_vars(NextMinimal)

\* ---- solve_global_backwards, visualization.py lines 437-475 ----
BisectCalls ==
    [target : GridsOf(SolverH, SolverW), max_ones : 1 .. BisectMaxOnes]

InitBisect ==
    /\ nodes = <<Node(DeadGrid, NoNode)>>
    /\ game_grid = DeadGrid
    /\ roots = <<1>>
    /\ current_node = 1
    /\ searching = FALSE
    /\ lock = {}
    /\ num_workers = 1
    /\ worker_locations = <<1>>
    /\ threads = [t \in ThreadIds |-> NoThread]
    /\ ui = "idle"
    /\ \E c \in BisectCalls : call = <<c>>
    /\ result = NoCall

\* the probes of the function: solve_initial_for_target(target, steps=1,
\* timeout_ms=5000, max_ones=bound, restrict=True)
BisectProbe(bound) ==
    solve_initial_for_target(call[1].target, SolverH, SolverW, FALSE, Margin, TRUE,
                             <<>>, bound)

\* lines 439-441; succeeded collects the bounds whose probe returned a grid
BisectEnter ==
    /\ result = NoCall
    /\ call # NoCall
    /\ result' = <<[min_ones |-> 1, max_ones |-> call[1].max_ones,
                     successful_init |-> None, succeeded |-> {},
                     returned |-> FALSE, ret |-> None]>>
    /\ UNCHANGED <<nodes, roots, current_node, game_grid, searching, lock,
                   num_workers, worker_locations, threads, ui, call>>

\* lines 443-457: one turn of `while min_ones < max_ones`
BisectTurn ==
    /\ result # NoCall
    /\ ~result[1].returned
    /\ result[1].min_ones < result[1].max_ones
    /\ LET mid_ones == (result[1].min_ones + result[1].max_ones) \div 2 IN
        \E current_init \in BisectProbe(mid_ones) :
            IF current_init # None
            THEN result' = <<[result[1] EXCEPT !.max_ones = mid_ones,
                                               !.successful_init = current_init,
                                               !.succeeded = @ \cup {mid_ones}]>>
            ELSE result' = <<[result[1] EXCEPT !.min_ones = mid_ones + 1]>>
    /\ UNCHANGED <<nodes, roots, current_node, game_grid, searching, lock,
                   num_workers, worker_locations, threads, ui, call>>

\* lines 459-475: the last probe with min_ones, made only when a probe of the
\* loop succeeded, and the return of its result
BisectReturn ==
    /\ result # NoCall
    /\ ~result[1].returned
    /\ ~(result[1].min_ones < result[1].max_ones)
    /\ IF result[1].successful_init # None
       THEN \E final_init \in BisectProbe(result[1].min_ones) :
               result' = <<[result[1] EXCEPT
                   !.returned = TRUE, !.ret = final_init,
                   !.succeeded = IF final_init # None
                                 THEN @ \cup {result[1].min_ones} ELSE @]>>
       ELSE result' = <<[result[1] EXCEPT !.returned = TRUE, !.ret = None]>>
    /\ UNCHANGED <<nodes, roots, current_node, game_grid, searching, lock,
                   num_workers, worker_locations, threads, ui, call>>

NextBisect == BisectEnter \/ BisectTurn \/ BisectReturn

\* the call runs on the UI thread, which keeps taking steps
SpecBisect == InitBisect /\ [][NextBisect]_vars /\ WF_vars(NextBisect)

\* ---- the b key with a selection, visualization.py lines 260-286, and
\* solve_selection_backwards, lines 336-435 ----
\* line 336: the defaults buffer=10 and max_attempts=3; line 266: max_ones = 500
SelBuffer == 10
max_attempts == 3
SelMaxOnes == 500
\* the values a Python name can hold here: None, False, or an array
PyNone == [kind |-> "None", shape |-> <<0, 0>>, cells |-> {}]
PyFalse == [kind |-> "bool", shape |-> <<0, 0>>, cells |-> {}]
Array(h, w, cells) == [kind |-> "array", shape |-> <<h, w>>, cells |-> cells]
\* the cells of the box <<y0, y1, x0, x1>>
BoxCells(box) == (box[1] .. box[2]) \X (box[3] .. box[4])
\* grid[y0:y1+1, x0:x1+1] = sub
Assign(grid, box, sub) == (grid \ BoxCells(box)) \cup Paste(sub, box)

\* lines 363-435: the attempts attempt .. max_attempts on the selection sel of
\* the visualizer state st (grid, initial_declared_state, back_steps); each
\* outcome is the value returned and the state left behind
RECURSIVE Attempts(_, _, _, _, _)
Attempts(attempt, exclude_models, st, target, sel) ==
    IF attempt > max_attempts
    THEN {[ret |-> PyNone, st |-> st]}
    ELSE LET sh == sel[2] - sel[1] + 1
             sw == sel[4] - sel[3] + 1
             sub_target == SubTarget(target, sel)
             sub_inits == {r.ret : r \in solve_backward_components(
                               sub_target, sh, sw, SelBuffer, FALSE, exclude_models)}
             one(sub_init) ==
                 IF sub_init = None \/ sub_init[1] = {}
                 THEN Attempts(attempt + 1, exclude_models, st, target, sel)
                 ELSE LET test_game == step(Assign(st.grid, sel, sub_init[1]), SelH, SelW)
                          patched == Assign(st.grid, sel, sub_init[1])
                      IN  IF st.initial_declared_state = Array(SelH, SelW, test_game)
                          THEN {[ret |-> Array(sh, sw, sub_init[1]),
                                 st |-> [grid |-> patched,
                                         initial_declared_state |-> Array(SelH, SelW, patched),
                                         back_steps |-> st.back_steps + 1]]}
                          ELSE Attempts(attempt + 1, Append(exclude_models, sub_init[1]),
                                        st, target, sel)
         IN  UNION {one(sub_init) : sub_init \in sub_inits}

\* solve_selection_backwards(target, max_ones=...) with an active selection
\* whose cell box is sel; max_ones is not used by the body
solve_selection_backwards(st, target, sel) ==
    IF st.initial_declared_state = PyNone
    THEN {[ret |-> PyNone, st |-> st]}
    ELSE IF SubTarget(target, sel) = {}
    THEN {[ret |-> PyFalse, st |-> st]}
    ELSE Attempts(1, <<>>, st, target, sel)

\* the grid on the screen (its live cells in the top left corner of SelLive
\* rows and columns), the selection box in cells (at most SelLive rows and
\* columns), and whether an initial state was declared (the button declares
\* the grid on the screen)
SelectCalls ==
    [grid : GridsOf(SelLive, SelLive),
     sel : {b \in (0 .. SelH - 1) \X (0 .. SelH - 1) \X (0 .. SelW - 1) \X (0 .. SelW - 1) :
               /\ b[1] <= b[2] /\ b[2] - b[1] < SelLive
               /\ b[3] <= b[4] /\ b[4] - b[3] < SelLive},
     declared : BOOLEAN]

InitSelect ==
    /\ nodes = <<Node(DeadGrid, NoNode)>>
    /\ game_grid = DeadGrid
    /\ roots = <<1>>
    /\ current_node = 1
    /\ searching = FALSE
    /\ lock = {}
    /\ num_workers = 1
    /\ worker_locations = <<1>>
    /\ threads = [t \in ThreadIds |-> NoThread]
    /\ ui = "idle"
    /\ \E c \in SelectCalls : call = <<c>>
    /\ result = NoCall

\* lines 262-268: target = self.game.grid.copy(), the bounds of the bisection
SelEnter ==
    /\ result = NoCall
    /\ call # NoCall
    /\ result' = <<[game_grid |-> Array(SelH, SelW, call[1].grid),
                     initial_declared_state |->
                         IF call[1].declared THEN Array(SelH, SelW, call[1].grid) ELSE PyNone,
                     back_steps |-> 0,
                     min_ones |-> 1, max_ones |-> SelMaxOnes, successful_init |-> PyNone,
                     probes |-> <<>>, pc |-> "while"]>>
    /\ UNCHANGED <<nodes, roots, current_node, game_grid, searching, lock,
                   num_workers, worker_locations, threads, ui, call>>

\* the state of the visualizer that solve_selection_backwards reads and writes
SelState ==
    [grid |-> result[1].game_grid.cells,
     initial_declared_state |-> result[1].initial_declared_state,
     back_steps |-> result[1].back_steps]
\* the state it leaves in the record of the handler
SelLeft(out) ==
    [result[1] EXCEPT !.game_grid = Array(SelH, SelW, out.st.grid),
                      !.initial_declared_state = out.st.initial_declared_state,
                      !.back_steps = out.st.back_steps,
                      !.probes = Append(@, out.ret.kind)]

\* lines 269-277: one turn of `while min_ones < max_ones`
SelTurn ==
    /\ result # NoCall
    /\ result[1].pc = "while"
    /\ result[1].min_ones < result[1].max_ones
    /\ LET mid_ones == (result[1].min_ones + result[1].max_ones) \div 2 IN
        \E out \in solve_selection_backwards(SelState, call[1].grid, call[1].sel) :
            IF out.ret # PyNone
            THEN result' = <<[SelLeft(out) EXCEPT !.max_ones = mid_ones,
                                                  !.successful_init = out.ret]>>
            ELSE result' = <<[SelLeft(out) EXCEPT !.min_ones = mid_ones + 1]>>
    /\ UNCHANGED <<nodes, roots, current_node, game_grid, searching, lock,
                   num_workers, worker_locations, threads, ui, call>>

\* lines 278-286: the last call, whose value replaces the grid when it is
\* not None
SelFinal ==
    /\ result # NoCall
    /\ result[1].pc = "while"
    /\ ~(result[1].min_ones < result[1].max_ones)
    /\ \E out \in solve_selection_backwards(SelState, call[1].grid, call[1].sel) :
          IF out.ret # PyNone
          THEN result' = <<[SelLeft(out) EXCEPT !.game_grid = out.ret,
                                                !.back_steps = @ + 1,
                                                !.pc = "done"]>>
          ELSE result' = <<[SelLeft(out) EXCEPT !.pc = "done"]>>
    /\ UNCHANGED <<nodes, roots, current_node, game_grid, searching, lock,
                   num_workers, worker_locations, threads, ui, call>>

NextSelect == SelEnter \/ SelTurn \/ SelFinal

SpecSelect == InitSelect /\ [][NextSelect]_vars

\* ---- the arrays behind the grids: which object each grid is ----
\* numpy arrays are objects: game.grid[:] = 0, game.grid[gy, gx] ^= 1 and
\* GameOfLife.step write into the array that game.grid names, and whoever
\* holds the same array sees the change.  The state is a heap of arrays, the
\* array game.grid names, and for every node the array node.grid names.
\* a "copy" that hands back the same array
share(heap, r) == [heap |-> heap, ref |-> r]
\* ndarray.copy(): a new array with the same cells
copy(heap, r) == [heap |-> Append(heap, heap[r]), ref |-> Len(heap) + 1]

\* the state of the arrays
Arr == result[1]
\* k more arrays fit the heap
ArrRoom(k) == Len(Arr.heap) + k <= MaxArrays
\* Node(grid, parent), line 40: self.grid = grid.copy()
ArrNode(r, parent) == [grid |-> r, parent |-> parent]

\* lines 70 and 110: self.game = GameOfLife(...); self.roots = [Node(self.game.grid)]
InitArrays ==
    /\ nodes = <<Node(DeadGrid, NoNode)>>
    /\ game_grid = DeadGrid
    /\ roots = <<1>>
    /\ current_node = 1
    /\ searching = FALSE
    /\ lock = {}
    /\ num_workers = 1
    /\ worker_locations = <<1>>
    /\ threads = [t \in ThreadIds |-> NoThread]
    /\ ui = "idle"
    /\ call = NoCall
    /\ \E g \in GridsOf(GridH, GridW) :
          LET c == copy(<<g>>, 1) IN
          result = <<[heap |-> c.heap, game |-> 1,
                      nodes |-> <<ArrNode(c.ref, NoNode)>>, current_node |-> 1]>>

\* a new root made of the array game.grid names after it was written in place
ArrNewRoot(written) ==
    LET c == copy([Arr.heap EXCEPT ![Arr.game] = written], Arr.game) IN
    [Arr EXCEPT !.heap = c.heap,
                !.nodes = Append(@, ArrNode(c.ref, NoNode)),
                !.current_node = Len(Arr.nodes) + 1]

\* step_forward, lines 414-431
ArrStepForward ==
    /\ ArrRoom(1)
    /\ LET cur == Arr.current_node
           par == Arr.nodes[cur].parent
       IN  IF par # NoNode
           THEN LET c == copy(Arr.heap, Arr.nodes[par].grid) IN
                result' = <<[Arr EXCEPT !.heap = c.heap, !.game = c.ref,
                                        !.current_node = par]>>
           ELSE LET stepped == ArrNewRoot(step(Arr.heap[Arr.game], GridH, GridW)) IN
                result' = <<[stepped EXCEPT !.nodes[cur].parent = Len(Arr.nodes) + 1]>>
    /\ UNCHANGED <<nodes, roots, current_node, game_grid, searching, lock,
                   num_workers, worker_locations, threads, ui, call>>

\* Clear, lines 482-487 and 571-576: self.game.grid[:] = 0, then a new root
ArrClear ==
    /\ ArrRoom(1)
    /\ result' = <<ArrNewRoot(DeadGrid)>>
    /\ UNCHANGED <<nodes, roots, current_node, game_grid, searching, lock,
                   num_workers, worker_locations, threads, ui, call>>

\* a click on cell c, lines 543-548: self.game.grid[gy, gx] ^= 1, then a new
\* root
ArrCellToggle(c) ==
    /\ ArrRoom(1)
    /\ LET g == Arr.heap[Arr.game] IN
          result' = <<ArrNewRoot((g \ {c}) \cup ({c} \ g))>>
    /\ UNCHANGED <<nodes, roots, current_node, game_grid, searching, lock,
                   num_workers, worker_locations, threads, ui, call>>

\* jump to node n, lines 519-521 (a worker that backtracks from the selected
\* node to n does the same, lines 390-392): game.grid = node.grid.copy()
ArrSelect(n) ==
    /\ ArrRoom(1)
    /\ LET c == copy(Arr.heap, Arr.nodes[n].grid) IN
          result' = <<[Arr EXCEPT !.heap = c.heap, !.game = c.ref, !.current_node = n]>>
    /\ UNCHANGED <<nodes, roots, current_node, game_grid, searching, lock,
                   num_workers, worker_locations, threads, ui, call>>

\* a worker at node p found an ancestor, lines 349-368: the solver returns a
\* new array, add_child stores a copy of it, and the selection follows with a
\* copy of the new node's grid when p was selected.  (The worker's own
\* grid_copy of line 345 is dropped when the iteration ends.)
ArrWorkerFound(p) ==
    /\ ArrRoom(3)
    /\ \E ancestor \in solve_initial_minimal_iterative(Arr.heap[Arr.nodes[p].grid], <<>>) :
        /\ ancestor # None
        /\ LET solved == Append(Arr.heap, ancestor[1])
               c == copy(solved, Len(solved))
               new_nodes == Append(Arr.nodes, ArrNode(c.ref, p))
           IN  IF p = Arr.current_node
               THEN LET d == copy(c.heap, c.ref) IN
                    result' = <<[heap |-> d.heap, game |-> d.ref, nodes |-> new_nodes,
                                 current_node |-> Len(new_nodes)]>>
               ELSE result' = <<[Arr EXCEPT !.heap = c.heap, !.nodes = new_nodes]>>
    /\ UNCHANGED <<nodes, roots, current_node, game_grid, searching, lock,
                   num_workers, worker_locations, threads, ui, call>>

NextArrays ==
    \/ ArrStepForward
    \/ ArrClear
    \/ \E c \in CellsOf(GridH, GridW) : ArrCellToggle(c)
    \/ \E n \in 1 .. Len(Arr.nodes) : ArrSelect(n)
    \/ \E p \in 1 .. Len(Arr.nodes) : ArrWorkerFound(p)

SpecArrays == InitArrays /\ [][NextArrays]_vars

(* ------------------------------- claims -------------------------------- *)
\* thread t is running search_worker
Live(t) == threads[t].pc \in {"top", "solving"}
\* thread t takes a step of its own
Steps(t) == Live(t) /\ threads'[t] # threads[t]
\* thread t writes back an ancestor: it leaves its solve and a node is created
WritesFound(t) == threads[t].pc = "solving" /\ Steps(t) /\ Len(nodes') = Len(nodes) + 1
\* thread t writes back a failed solve, at its slot's node
WritesNotFound(t) ==
    /\ threads[t].pc = "solving" /\ Steps(t)
    /\ searching
    /\ threads[t].worker_idx < Len(worker_locations)
    /\ Len(nodes') = Len(nodes)
\* the place of thread t's slot in worker_locations
Slot(t) == threads[t].worker_idx + 1

\* C1: a single worker at node N whose solve returns an ancestor A: N gets
\* exactly one more child, with grid A; A is appended to N's exclusion
\* history; the worker moves to the child; and the child's grid stepped
\* forward once (GameOfLife.step) is N's grid.
C1_SuccessfulIteration ==
    [][\A t \in ThreadIds :
        LET N == threads[t].node
            child == Len(nodes')
        IN  ( /\ WritesFound(t)
              /\ \A u \in ThreadIds \ {t} : ~Live(u)
              /\ worker_locations = <<N>>
              /\ threads[t].excluded_copy = nodes[N].excluded_from_sat )
            => /\ nodes'[N].children = Append(nodes[N].children, child)
               /\ nodes'[child].parent = N
               /\ nodes'[N].excluded_from_sat =
                     Append(nodes[N].excluded_from_sat, nodes'[child].grid)
               /\ worker_locations' = <<child>>
               /\ step(nodes'[child].grid, GridH, GridW) = nodes[N].grid
      ]_vars

\* C2: round trip: a grid that solve_initial_for_target returns for target T
\* with steps=1 is taken to T by one GameOfLife.step.
C2_RoundTrip ==
    (result # NoCall /\ result[1] # None)
        => step(result[1][1], SolverH, SolverW) = call[1].target

\* a change of the forest, the worker locations or the selection
Mutation ==
    \/ nodes' # nodes
    \/ roots' # roots
    \/ worker_locations' # worker_locations
    \/ current_node' # current_node
IsPrefix(a, b) == Len(a) <= Len(b) /\ \A k \in 1 .. Len(a) : a[k] = b[k]
\* at most one holder; a solving worker is not the holder and works on copies
\* of what its node held when it took them
C3_LockState ==
    /\ Cardinality(lock) <= 1
    /\ \A t \in ThreadIds : threads[t].pc = "solving" =>
          /\ t \notin lock
          /\ threads[t].grid_copy = nodes[threads[t].node].grid
          /\ IsPrefix(threads[t].excluded_copy, nodes[threads[t].node].excluded_from_sat)

\* C3: copy-out, solve unlocked, write-back locked: at most one thread holds
\* the lock; no worker holds it while its solve runs; the solve works on the
\* copies taken under the lock (the node's grid, and what its exclusion
\* history was then); every change of the forest, the worker locations and
\* the selection happens in a step that has taken the lock.
C3_LockDiscipline ==
    /\ []C3_LockState
    /\ [][Mutation => (lock = {} /\ lock' = {})]_vars
\* a solve is in flight, without the lock, while another worker has written
\* to the node it solves
C3_Witness ==
    \E t \in ThreadIds :
        /\ threads[t].pc = "solving"
        /\ Len(threads[t].excluded_copy) < Len(nodes[threads[t].node].excluded_from_sat)

\* C4: while searching is False a worker's step (the poll at the top of the
\* loop, or the poll after its solve returned) only leaves the loop: no node
\* is created, no exclusion history, worker location or selection changes.
C4_CooperativeCancellation ==
    [][\A t \in ThreadIds :
        (Steps(t) /\ ~searching)
            => /\ threads'[t] = NoThread
               /\ UNCHANGED <<nodes, roots, worker_locations, current_node, game_grid>>
      ]_vars
\* a solve is in flight while the flag is lowered
C4_Witness == ~searching /\ \E t \in ThreadIds : threads[t].pc = "solving"

\* C5: the set-worker-count command always completes: the UI thread never
\* waits for the lock while holding it.
C5_SetWorkersCompletes == ~(ui = "set_workers_toggle_search" /\ UI \in lock)

\* thread t is about to run its check at a node with more than 4 children
OverCap(t) ==
    /\ threads[t].pc = "top"
    /\ searching
    /\ threads[t].worker_idx < Len(worker_locations)
    /\ Len(nodes[worker_locations[Slot(t)]].children) > 4

\* C6: a worker at a node with more than 4 children does not start a solve
\* there; it moves to the node's parent, or stops when there is none.
C6_BranchingCap ==
    [][\A t \in ThreadIds :
        /\ (threads[t].pc = "top" /\ threads'[t].pc = "solving")
              => Len(nodes[threads'[t].node].children) <= 4
        /\ (OverCap(t) /\ WorkerCheckAndCopy(t))
              => LET node == worker_locations[Slot(t)] IN
                 IF nodes[node].parent # NoNode
                 THEN /\ worker_locations'[Slot(t)] = nodes[node].parent
                      /\ threads'[t].pc = "top"
                 ELSE /\ threads'[t].pc = "none"
                      /\ worker_locations' = worker_locations
      ]_vars
\* a worker is about to run its check at a node with five children and a parent
C6_Witness ==
    \E t \in ThreadIds :
        OverCap(t) /\ lock = {} /\ nodes[worker_locations[Slot(t)]].parent # NoNode

\* C7: a worker whose solve fails at a parentless node stops: it does not
\* go back to the top of its loop.
C7_FailureAtRootStops ==
    [][\A t \in ThreadIds :
        (WritesNotFound(t) /\ nodes[worker_locations[Slot(t)]].parent = NoNode)
            => threads'[t].pc \in {"none", "crashed"}
      ]_vars

\* C8: a failed solve at a node of any depth d is recovered from: no error
\* is raised, and for d >= 1 the worker moves 1..d steps up its parent chain.
C8_FailureRecoverable ==
    [][\A t \in ThreadIds :
        WritesNotFound(t)
            => LET curr == worker_locations[Slot(t)]
                   d == depth(nodes, curr)
               IN  /\ threads'[t].pc # "crashed"
                   /\ d >= 1 => \E k \in 1 .. d :
                                   worker_locations'[Slot(t)] = Up(nodes, curr, k)
      ]_vars

Occurrences(l, x) == Cardinality({k \in 1 .. Len(l) : l[k] = x})

\* C9: the forest is well formed: a node with a parent is exactly once in
\* that parent's child list, every entry of a child list has the list's owner
\* as its parent, the parent links from any node end at a parentless node,
\* and from a node below the roots list they end at an entry of that list.
C9_ForestStructure ==
    \A n \in NodeIds :
        /\ nodes[n].parent # NoNode =>
              /\ nodes[n].parent \in NodeIds
              /\ Occurrences(nodes[nodes[n].parent].children, n) = 1
        /\ \A k \in 1 .. Len(nodes[n].children) :
              /\ nodes[n].children[k] \in NodeIds
              /\ nodes[nodes[n].children[k]].parent = n
        /\ nodes[Up(nodes, n, Len(nodes))].parent = NoNode
        /\ n \in Forest =>
              \E k \in 1 .. Len(roots) : roots[k] = Up(nodes, n, Len(nodes))
\* a node that a forward step has given a parent and a worker a child
C9_Witness ==
    \E n \in NodeIds :
        /\ nodes[n].parent # NoNode
        /\ nodes[n].children # <<>>
        /\ nodes[nodes[n].parent].excluded_from_sat = <<>>

\* C10: the entries of every node's exclusion history are pairwise distinct
\* and differ from the node's own grid.
C10_ExclusionDistinct ==
    \A n \in NodeIds :
        LET e == nodes[n].excluded_from_sat IN
        /\ \A j, k \in 1 .. Len(e) : j # k => e[j] # e[k]
        /\ \A k \in 1 .. Len(e) : e[k] # nodes[n].grid

(* ---- claims about one call of solve_initial_for_target (SpecSolver) ---- *)
\* the call has returned a grid
Returned == result # NoCall /\ result[1] # None
\* the arguments of the call and the grid it returned
Args == call[1]
Ret == result[1][1]
\* the grids the call could return if it were given no exclusion list
Unexcluded ==
    Models(Args.target, SolverH, SolverW, Args.wrap, Margin, Args.restrict, <<>>,
           Args.max_ones)

\* C11: exclusion is enforced: a call whose exclusion list holds a valid
\* ancestor A of the target never returns A when the constraints without
\* the exclusion have another solution.
C11_ExclusionEnforced ==
    Returned =>
        \A i \in 1 .. Len(Args.exclude_models) :
            LET A == Args.exclude_models[i] IN
            (A \in Unexcluded /\ Unexcluded # {A}) => Ret # A

\* C13: the returned grid has at most max_ones live cells.
C13_PopulationBound == Returned => Cardinality(Ret) <= Args.max_ones
\* a call whose bound is below the size of the grid returns a grid that
\* reaches the bound
C13_Witness ==
    /\ Returned
    /\ Args.max_ones > 0
    /\ Args.max_ones < SolverH * SolverW
    /\ Cardinality(Ret) = Args.max_ones

\* the larger of the row and column distances of two cells
Chebyshev(a, b) ==
    LET dy == IF a[1] >= b[1] THEN a[1] - b[1] ELSE b[1] - a[1]
        dx == IF a[2] >= b[2] THEN a[2] - b[2] ELSE b[2] - a[2]
    IN  IF dy >= dx THEN dy ELSE dx
\* the cells within Chebyshev distance 1 (steps = 1) of a live target cell
Allowed(target) ==
    {c \in CellsOf(WideH, WideW) : \E l \in target : Chebyshev(c, l) <= 1}

\* C14: locality: with restrict and a target with a live cell, every live
\* cell of the returned grid is within Chebyshev distance steps = 1 of a live
\* target cell, and the returned grid has a live cell in that allowed set.
C14_Locality ==
    (Returned /\ Args.restrict /\ Args.target # {}) =>
        /\ Ret \subseteq Allowed(Args.target)
        /\ Ret \cap Allowed(Args.target) # {}

\* the Life step on a bounded grid: a cell's neighbours are the other cells of
\* the grid at Chebyshev distance 1
BoundedStep(g, h, w) ==
    {c \in CellsOf(h, w) :
        LET n == Cardinality({d \in g : d # c /\ Chebyshev(c, d) = 1})
        IN  (c \in g /\ n \in {2, 3}) \/ (c \notin g /\ n = 3)}

\* C12: transition encoding exactness: with wrap=False the next layers that
\* satisfy the constraints of life_transition for a current layer are exactly
\* the one grid that the non-wrapping Life step gives (in-bounds neighbours
\* only, survival on 2 or 3, birth on 3).
C12_EncodingExact ==
    (result # NoCall /\ ~call[1].wrap) =>
        result[1] = {BoundedStep(call[1].curr, EncH, EncW)}
\* an encoded layer whose non-wrapping successor differs from the torus step
C12_Witness ==
    /\ result # NoCall
    /\ ~call[1].wrap
    /\ result[1] # {}
    /\ result[1] # {step(call[1].curr, EncH, EncW)}

\* the bounding box of a set of cells widened by buffer on each side and cut
\* to the grid, as [y0, y1, x0, x1]
Widened(cells, buffer, h, w) ==
    LET lo(S) == CHOOSE m \in S : \A k \in S : m <= k
        hi(S) == CHOOSE m \in S : \A k \in S : m >= k
        ys == {c[1] : c \in cells}
        xs == {c[2] : c \in cells}
        atLeast0(v) == IF v < 0 THEN 0 ELSE v
        atMost(v, m) == IF v > m THEN m ELSE v
    IN  <<atLeast0(lo(ys) - buffer), atMost(hi(ys) + buffer, h - 1),
          atLeast0(lo(xs) - buffer), atMost(hi(xs) + buffer, w - 1)>>
\* two boxes share a cell
Meet(p, q) ==
    \E c \in CellsOf(RegH, RegW) :
        /\ p[1] <= c[1] /\ c[1] <= p[2] /\ p[3] <= c[2] /\ c[2] <= p[4]
        /\ q[1] <= c[1] /\ c[1] <= q[2] /\ q[3] <= c[2] /\ c[2] <= q[4]

\* C16: region decomposition: for a target of two single live cells at
\* Chebyshev distance greater than 2*buffer, bounding_boxes_from_components
\* returns exactly two boxes that do not overlap; for a target of two adjacent
\* live cells it returns exactly one box; each box is its component's
\* bounding box widened by buffer and clamped to the grid.
C16_Regions ==
    result # NoCall =>
        \A a, b \in call[1].target :
            (a # b /\ call[1].target = {a, b}) =>
                LET boxes == result[1]
                    buffer == call[1].buffer
                IN  /\ Chebyshev(a, b) > 2 * buffer =>
                          /\ Len(boxes) = 2
                          /\ ~Meet(boxes[1], boxes[2])
                          /\ {boxes[1], boxes[2]} =
                                 {Widened({a}, buffer, RegH, RegW),
                                  Widened({b}, buffer, RegH, RegW)}
                    /\ Chebyshev(a, b) = 1 =>
                          /\ Len(boxes) = 1
                          /\ boxes[1] = Widened({a, b}, buffer, RegH, RegW)
\* two far-apart cells whose boxes were widened and clamped
C16_Witness ==
    /\ result # NoCall
    /\ \E a, b \in call[1].target :
          /\ call[1].target = {a, b}
          /\ Chebyshev(a, b) > 2 * call[1].buffer
          /\ Len(result[1]) = 2
          /\ result[1][1] # <<a[1], a[1], a[2], a[2]>>


\* _merge_overlapping_boxes has returned
MergeReturned == result # NoCall /\ result[1].returned
\* box p lies inside box q
Inside(p, q) == q[1] <= p[1] /\ p[2] <= q[2] /\ q[3] <= p[3] /\ p[4] <= q[4]
\* no two boxes of the list overlap under _overlap
NoOverlap(l) == \A i, j \in 1 .. Len(l) : i # j => ~_overlap(l[i], l[j])
\* what holds of a returned list
MergeOutcome ==
    MergeReturned =>
        LET out == result[1].boxes
            inp == call[1]
        IN  /\ NoOverlap(out)
            /\ \A i \in 1 .. Len(inp) : \E k \in 1 .. Len(out) : Inside(inp[i], out[k])
            /\ NoOverlap(inp) => out = inp

\* C17: fixed-point box merge: for every list of boxes
\* _merge_overlapping_boxes terminates, and the list it returns has no
\* overlapping pair (inclusive test of _overlap), contains every input box in
\* some box, and is the input itself when no pair of the input overlaps.
C17_FixedPointMerge == <>MergeReturned /\ []MergeOutcome
\* a call that needed two merging turns of the loop before the turn that
\* changes nothing
C17_Witness == MergeReturned /\ result[1].turns = 3

\* C18: failure propagation through region decomposition: when the backward
\* solve of any region returns None, solve_backward_components returns None
\* and not a grid.
C18_FailurePropagates ==
    (result # NoCall /\ \E i \in 1 .. Len(result[1].subs) : result[1].subs[i] = None) =>
        result[1].ret = None

\* C19: solver outcome mapping: solve_initial_for_target returns None whenever
\* the oracle's answer is not sat (unsat and timeout alike), and on sat it
\* returns an h x w grid that is the model's value of layer 0, the model's
\* layer steps being the target cell by cell; it returns nothing else.
C19_OutcomeMapping ==
    (result # NoCall /\ result[1].returned) =>
        LET checked == result[1].checked
            ret == result[1].ret
        IN  /\ checked.answer # "sat" => ret = None
            /\ checked.answer = "sat" =>
                  /\ ret # None
                  /\ ret[1] \in GridsOf(SolverH, SolverW)
                  /\ \A c \in CellsOf(SolverH, SolverW) :
                        /\ (c \in ret[1]) <=> checked.t0[c]
                        /\ checked.t1[c] <=> (c \in call[1].target)
            /\ ret \in solve_initial_for_target(call[1].target, SolverH, SolverW,
                     call[1].wrap, Margin, call[1].restrict, call[1].exclude_models,
                     call[1].max_ones)
\* a call that hit the timeout although the constraints have a model, and
\* returned None
C19_Witness ==
    /\ result # NoCall
    /\ result[1].returned
    /\ result[1].checked.answer = "unknown"
    /\ result[1].ret = None
    /\ Models(call[1].target, SolverH, SolverW, call[1].wrap, Margin, call[1].restrict,
              call[1].exclude_models, call[1].max_ones) # {}

\* the search has returned
MinReturned == result # NoCall /\ result[1].returned
\* a step that records a solution leaves a bound strictly below the live-cell
\* count just found and below the bound it was found under
MinDecreases ==
    (result # NoCall /\ result'[1].best # result[1].best) =>
        /\ result'[1].bound < Population(result'[1].best[1])
        /\ result'[1].bound < result[1].bound
\* the calls made stay within the start bound, and within the size of the
\* grid, plus the two calls that find the empty grid and fail
MinCallsBounded ==
    result # NoCall =>
        /\ result[1].calls <= call[1].startBound + 2
        /\ result[1].calls <= SolverH * SolverW + 2

\* C20: Minimality Search terminates: for every target and start bound the
\* loop of backward solves ends after finitely many solver calls, each
\* success leaving a bound strictly below the live-cell count just found.
C20_MinimalityTerminates ==
    <>MinReturned /\ []MinCallsBounded /\ [][MinDecreases]_vars
\* a search that tightened the bound twice before the call that failed
C20_Witness ==
    /\ MinReturned
    /\ result[1].calls >= 3
    /\ result[1].best # None

\* the number of cells in which two grids differ
Mismatch(a, b) == Cardinality((a \ b) \cup (b \ a))

\* C15: diversity threshold: the returned grid differs from every grid E of
\* the exclusion list in at least ceil(0.1 * popcount(E)) + 1 cells.
C15_DiversityThreshold ==
    Returned =>
        \A i \in 1 .. Len(Args.exclude_models) :
            LET E == Args.exclude_models[i] IN
            Mismatch(Ret, E) >= (Cardinality(E) + 9) \div 10 + 1

(* ------------- claims about the Minimality Search (SpecMinimal) ---------- *)
\* a step that replaces a recorded solution records one with no more live
\* cells, and a recorded solution is never dropped
MinMonotone ==
    (result # NoCall /\ result[1].best # None) =>
        /\ result'[1].best # None
        /\ Population(result'[1].best[1]) <= Population(result[1].best[1])
\* the returned solution is within the start bound
MinFinal ==
    (MinReturned /\ result[1].best # None) =>
        Population(result[1].best[1]) <= call[1].startBound

\* C21: Minimality Search result bound: the populations of the solutions
\* found in successive iterations are non-increasing, a non-None result has
\* at most startBound live cells, and the result is None only if no iteration
\* succeeded (after a success the best-known solution is what is returned).
C21_ResultBound == [][MinMonotone]_vars /\ []MinFinal
\* a search under a small start bound that recorded two solutions, returned
C21_Witness ==
    /\ MinReturned
    /\ result[1].best # None
    /\ call[1].startBound > 0
    /\ call[1].startBound <= SolverMaxOnes
    /\ result[1].calls = 3

(* ------------------ claims about the tree (Spec), continued -------------- *)
\* C22: nodes are never deleted: after any sequence of commands and worker
\* steps every node that was ever created is still reachable from some root
\* of the forest.
C22_NodesNeverDeleted == \A n \in NodeIds : n \in Forest

\* a step leaves the cells of every node's grid as they were
ArrKept ==
    \A n \in 1 .. Len(Arr.nodes) :
        Arr'.heap[Arr'.nodes[n].grid] = Arr.heap[Arr.nodes[n].grid]
\* no node's grid is the array the display writes into, and no two nodes
\* hold the same array
ArrIndependent ==
    \A n \in 1 .. Len(Arr.nodes) :
        /\ Arr.nodes[n].grid # Arr.game
        /\ \A m \in 1 .. Len(Arr.nodes) : m # n => Arr.nodes[m].grid # Arr.nodes[n].grid

\* C23: node grid immutability: the grid a node got at creation never changes
\* afterwards, whatever is done (forward step of the displayed grid, cell
\* toggle, clear, worker write-back, selection changes); the displayed grid
\* and every node grid are independent copies.
C23_NodeGridImmutable == [][ArrKept]_vars /\ []ArrIndependent
\* the displayed grid was stepped or edited in place after a node captured it
C23_Witness ==
    /\ Len(Arr.nodes) >= 3
    /\ \E n \in 1 .. Len(Arr.nodes) :
          /\ Arr.nodes[n].parent # NoNode
          /\ Arr.heap[Arr.nodes[n].grid] # Arr.heap[Arr.game]

\* C24: one thread per worker: in every reachable state, also after the
\* exploration was stopped and started again while a solve was in flight, at
\* most one live worker thread exists per worker index and the live worker
\* threads are no more than the configured worker count.
C24_OneThreadPerWorker ==
    /\ \A t, u \in ThreadIds :
          (t # u /\ Live(t) /\ Live(u)) => threads[t].worker_idx # threads[u].worker_idx
    /\ Cardinality({t \in ThreadIds : Live(t)}) <= num_workers

\* no worker thread is in its loop
AllExited == \A t \in ThreadIds : ~Live(t)
\* thread t's slot holds a parentless node with more children than the cap
AtExhaustedRoot(t) ==
    /\ Slot(t) <= Len(worker_locations)
    /\ nodes[worker_locations[Slot(t)]].parent = NoNode
    /\ Len(nodes[worker_locations[Slot(t)]].children) > BranchCap
\* a worker leaves its loop only when the flag is lowered or at an exhausted
\* root
KeepsIterating ==
    \A t \in ThreadIds :
        (Live(t) /\ threads'[t].pc \in {"none", "crashed"}) =>
            (~searching \/ AtExhaustedRoot(t))

Walking == ui = "check_nodes"

\* C26: all reads of the forest are locked: while the UI thread walks the
\* roots list and the child lists it holds the lock the workers use, so no
\* thread changes the forest during the walk.
C26_ReadsLocked ==
    /\ [](Walking => UI \in lock)
    /\ [][Walking => (nodes' = nodes /\ roots' = roots)]_vars

(* --------------- claims about the solver calls, continued ---------------- *)
\* C27: all-dead target: with the locality restriction disabled the solve of
\* an all-dead target succeeds (the constraints are satisfiable, the all-dead
\* grid being a solution, so the call returns a grid unless the oracle times
\* out), and solve_backward_components on a target without live components
\* returns the all-dead grid.
C27_AllDeadTarget ==
    /\ (~IsComponents(call[1]) /\ call[1].target = {} /\ ~call[1].restrict) =>
          /\ Some(DeadGrid) \in solve_initial_for_target(call[1].target, SolverH,
                 SolverW, call[1].wrap, Margin, call[1].restrict,
                 call[1].exclude_models, call[1].max_ones)
          /\ (result # NoCall /\ result[1].returned) =>
                /\ result[1].checked.answer # "unsat"
                /\ result[1].checked.answer = "sat" => result[1].ret # None
    /\ (IsComponents(call[1]) /\ call[1].target = {} /\ result # NoCall) =>
          result[1] = [subs |-> <<>>, ret |-> Some(DeadGrid)]
\* the all-dead target solved under the tightest bound and with an exclusion
C27_Witness ==
    /\ ~IsComponents(call[1])
    /\ call[1].target = {}
    /\ ~call[1].restrict
    /\ call[1].max_ones = 0
    /\ call[1].exclude_models # <<>>
    /\ result # NoCall
    /\ result[1].returned
    /\ result[1].ret = Some(DeadGrid)

(* ------------------ claims about the tree (Spec), continued -------------- *)
\* the exclusion history of node n
History(ns, n) == ns[n].excluded_from_sat

\* a step keeps every entry of every node's exclusion history
HistoryKept ==
    \A n \in NodeIds : n <= Len(nodes') /\ IsPrefix(History(nodes, n), History(nodes', n))

\* C28: exclusion-history growth: every solve attempt at a node, failed or
\* successful, appends an entry to that node's exclusion history, and no step
\* removes or alters an existing entry of any node.
C28_HistoryGrowth ==
    [][/\ \A t \in ThreadIds :
            (WritesFound(t) \/ WritesNotFound(t)) =>
                Len(History(nodes', threads[t].node)) =
                    Len(History(nodes, threads[t].node)) + 1
       /\ HistoryKept
      ]_vars

\* C29: write-back targets the solved node: the child a worker creates is
\* attached to the node whose grid was copied out for the solve, and that
\* node's exclusion history receives the grid, even when the worker's
\* location was changed while the solve was in flight; so the child's grid is
\* an ancestor, as the solver encodes it, of its parent's grid.
C29_WriteBackTarget ==
    [][\A t \in ThreadIds :
        WritesFound(t) =>
            LET child == Len(nodes')
                solved == threads[t].node
            IN  /\ nodes'[child].parent = solved
                /\ History(nodes', solved) = Append(History(nodes, solved), nodes'[child].grid)
                /\ life_transition(nodes'[child].grid, nodes'[nodes'[child].parent].grid,
                                   GridH, GridW, FALSE)
      ]_vars

\* C30: in every reachable state, for any number of workers and any
\* interleaving, no node has more than 5 children.
C30_GlobalBranchingBound ==
    \A n \in NodeIds : Len(nodes[n].children) <= 5

\* C31: in every reachable state every entry of the worker-location list is
\* a node reachable from one of the current roots.
C31_WorkersInForest ==
    \A k \in 1 .. Len(worker_locations) : worker_locations[k] \in Forest

\* thread t reads or writes worker_locations[worker_idx] in this step: it
\* copies a node out at the top of its loop, or it writes back while the
\* flag is up
UsesSlot(t) ==
    \/ threads[t].pc = "top" /\ threads'[t].pc = "solving"
    \/ threads[t].pc = "solving" /\ threads'[t].pc # "solving" /\ searching

\* C32: whenever a worker thread reads or writes its slot of
\* worker_locations, at the top of its loop or in the write-back, its index
\* is smaller than the length of the list.
C32_SlotInRange ==
    [][\A t \in ThreadIds :
        UsesSlot(t) => threads[t].worker_idx < Len(worker_locations)]_vars

\* the cells of the merged region boxes of the call's target
InBoxes ==
    LET boxes == bounding_boxes_from_components(call[1].target, call[1].buffer, JoinH, JoinW)
    IN  {c \in CellsOf(JoinH, JoinW) :
            \E i \in 1 .. Len(boxes) : Inside(<<c[1], c[1], c[2], c[2]>>, boxes[i])}
\* every region's solve returned a grid
AllRegionsSolved ==
    /\ result # NoCall
    /\ \A i \in 1 .. Len(result[1].subs) : result[1].subs[i] # None

\* C33: when every region's solve succeeds, the grid solve_backward_components
\* returns evolves under one non-wrapping Life step into exactly the full
\* target, and all its live cells lie inside the merged boxes.
C33_ComposedAncestor ==
    AllRegionsSolved =>
        /\ result[1].ret # None
        /\ life_transition(result[1].ret[1], call[1].target, JoinH, JoinW, FALSE)
        /\ result[1].ret[1] \subseteq InBoxes

\* the roots list holds exactly the parentless nodes of the forest, each once
RootsAreParentless ==
    /\ {roots[k] : k \in 1 .. Len(roots)} = {n \in Forest : nodes[n].parent = NoNode}
    /\ \A j, k \in 1 .. Len(roots) : roots[j] = roots[k] => j = k
\* a forward step of the UI thread: the only command that moves the selection
\* to the parent of the selected node (a worker moves it to a child or up from
\* the node it solved; the other commands select a parentless or clicked node)
StepsForward ==
    /\ ui = "idle" /\ UI \notin lock
    /\ current_node' # current_node
    /\ nodes'[current_node].parent = current_node'
    /\ threads' = threads
    /\ worker_locations' = worker_locations
\* what a forward step does
ForwardStep ==
    StepsForward =>
        IF nodes[current_node].parent = NoNode
        THEN LET new_node == Len(nodes) + 1 IN
             /\ Len(nodes') = Len(nodes) + 1
             /\ current_node' = new_node
             /\ nodes'[new_node] = [Node(step(game_grid, GridH, GridW), NoNode) EXCEPT
                                       !.children = <<current_node>>]
             /\ \A n \in NodeIds \ {current_node} : nodes'[n] = nodes[n]
             /\ nodes'[current_node] = [nodes[current_node] EXCEPT !.parent = new_node]
             /\ Len(roots') = Len(roots)
             /\ \A k \in 1 .. Len(roots) :
                   roots'[k] = IF roots[k] = current_node THEN new_node ELSE roots[k]
        ELSE /\ current_node' = nodes[current_node].parent
             /\ nodes' = nodes
             /\ roots' = roots

\* C34: in every reachable state the roots list contains exactly the
\* parentless nodes of the forest, each once, and the selection is a node of
\* the forest; a forward step at a parentless selected node creates a node
\* with the stepped grid, makes the old node its only child and puts it at
\* the old node's position of the roots list, and a forward step at a node
\* with a parent only moves the selection to the parent.
C34_RootsTrackParentless ==
    /\ [](RootsAreParentless /\ current_node \in Forest)
    /\ [][ForwardStep]_vars
\* a forward step has replaced the second root by its new parent
C34_Witness ==
    \E k \in 2 .. Len(roots) :
        /\ nodes[roots[k]].children # <<>>
        /\ nodes[roots[k]].children[1] < roots[k]
        /\ current_node = roots[k]

\* C35: whenever the lock is free the displayed game grid equals the grid of
\* the selected node, and a worker moves the selection only if the node it
\* solved from is the selected node at write-back time.
C35_GridFollowsSelection ==
    /\ [](lock = {} => game_grid = nodes[current_node].grid)
    /\ [][\A t \in ThreadIds :
            (Steps(t) /\ current_node' # current_node) => threads[t].node = current_node
         ]_vars
\* a worker's write-back has moved the selection and the display to a child
\* whose grid differs from its parent's
C35_Witness ==
    \E t \in ThreadIds :
        /\ threads[t].pc = "top"
        /\ threads[t].worker_idx < Len(worker_locations)
        /\ worker_locations[Slot(t)] = current_node
        /\ nodes[current_node].parent # NoNode
        /\ nodes[current_node].parent < current_node
        /\ game_grid = nodes[current_node].grid
        /\ game_grid # nodes[nodes[current_node].parent].grid

\* the threads whose solve is in flight
Solving == {t \in ThreadIds : threads[t].pc = "solving"}
\* the time budget of the solve of thread t
Budget(t) == timeout_ms(threads[t].current_depth)

\* C36: the budget a worker passes to the solve of a node at depth d is
\* 10000 * max(1, d) milliseconds, with d the depth read under the lock when
\* the node was copied out; it is non-decreasing in d, and strictly larger
\* for a deeper node than for a shallower one.
C36_DepthScaledTimeout ==
    /\ [][\A t \in ThreadIds :
            (threads[t].pc = "top" /\ threads'[t].pc = "solving")
                => threads'[t].current_depth = depth(nodes, threads'[t].node)]_vars
    /\ [](\A t, u \in Solving :
            LET d == threads[t].current_depth
                e == threads[u].current_depth
            IN  /\ Budget(t) = 10000 * (IF d < 1 THEN 1 ELSE d)
                /\ d <= e => Budget(t) <= Budget(u)
                /\ d < e => Budget(t) < Budget(u))

\* C36 as amended: the budget is 10000 * max(1, d) milliseconds for the depth
\* d read under the lock, it is non-decreasing in d, and it is strictly larger
\* for a deeper node than for a shallower one when the deeper node is at
\* depth 2 or more (the depths 0 and 1 get the same budget).
C36_DepthScaledFromOne ==
    /\ [][\A t \in ThreadIds :
            (threads[t].pc = "top" /\ threads'[t].pc = "solving")
                => threads'[t].current_depth = depth(nodes, threads'[t].node)]_vars
    /\ [](\A t, u \in Solving :
            LET d == threads[t].current_depth
                e == threads[u].current_depth
            IN  /\ Budget(t) = 10000 * (IF d < 1 THEN 1 ELSE d)
                /\ d <= e => Budget(t) <= Budget(u)
                /\ (d < e /\ e >= 2) => Budget(t) < Budget(u))
\* two solves are in flight, one at a parentless node and one at depth 2
C36_Witness ==
    \E t, u \in Solving :
        /\ threads[t].current_depth = 0 /\ nodes[threads[t].node].parent = NoNode
        /\ threads[u].current_depth = 2 /\ depth(nodes, threads[u].node) = 2

\* the bisection has returned
BisectReturned == result # NoCall /\ result[1].returned
\* what holds of the value returned
BisectOutcome ==
    BisectReturned =>
        LET ok == result[1].succeeded
            ret == result[1].ret
        IN  /\ ok # {} => (ret # None /\ Population(ret[1]) <= MinOf(ok))
            /\ ret = None => ok = {}

\* C37: with an oracle that may answer None for UNSAT and for a timeout, the
\* bisection of solve_global_backwards terminates; whenever a probe returned a
\* solution it returns a grid whose population is at most the smallest bound
\* that succeeded, and it returns None only if no probe ever succeeded.
C37_BisectionKeepsBest == <>BisectReturned /\ []BisectOutcome

\* the selection of the call holds no live cell of the grid on the screen
EmptySelection == SubTarget(call[1].grid, call[1].sel) = {}

\* C38: when a selection backsolve is requested on a selection without a live
\* target cell, solve_selection_backwards reports 'no solution' (None) to the
\* bound-search loop of the key handler, and the displayed grid, the declared
\* initial state and back_steps are left unchanged: the grid is never
\* replaced by a value that is not a grid.
C38_EmptySelectionNoOp ==
    (result # NoCall /\ EmptySelection) =>
        /\ \A k \in 1 .. Len(result[1].probes) : result[1].probes[k] = "None"
        /\ result[1].game_grid = Array(SelH, SelW, call[1].grid)
        /\ result[1].initial_declared_state =
               (IF call[1].declared THEN Array(SelH, SelW, call[1].grid) ELSE PyNone)
        /\ result[1].back_steps = 0
====
